---- MODULE Spec2Model ----
(***************************************************************************)
(* Model of drivers/net/ethernet/micrel/ks8851.c: the transmit producer    *)
(* (ks8851_start_xmit), the transmit work unit (ks8851_tx_work and         *)
(* ks8851_wrpkts3), the threaded interrupt handler (ks8851_irq) with the   *)
(* receive pipeline it runs inline (ks8851_rx_pkts3, ks8851_rdfifolen),    *)
(* and the KS8851 device as far as the driver observes it.                 *)
(***************************************************************************)
EXTENDS Integers, Sequences, FiniteSets, TLC

(* ------------------------------------------------------------------ *)
(* Program constants                                                   *)
(* ------------------------------------------------------------------ *)
KSZ8851_TX_SPACE == 18432
MAX_RXFIFO_SIZE == 12288
TX_BATCH_CAP == 6144
TX_DMA_BUFFER_SIZE == 24576
U8 == 256
U16 == 65536
(* 2^32 / 4: an unsigned 32-bit byte count that is a multiple of 4, *)
(* counted in 4-byte words.                                         *)
U32_WORDS == 1073741824

(* Interrupt sources, by the name of their IRQ_ bit. *)
IRQ_BITS == {"LCI", "TXI", "RXI", "RXOI", "TXPSI", "RXPSI", "LDI", "SPIBEI"}
STD_IRQ == {"LCI", "TXI", "RXI", "SPIBEI", "TXPSI", "RXPSI"}

(* ------------------------------------------------------------------ *)
(* Bounds of the model                                                 *)
(* ------------------------------------------------------------------ *)
MaxSends == 3
MaxRxFrames == 3
MaxGlitches == 1
MaxRaises == 2
MaxFilterReqs == 2
MaxStops == 1
(* sends the stack makes in the specification that runs from attach to stop *)
MaxDevSends == 1
(* failed reads of the interrupt status *)
MaxBusFaults == 1

(* Frame lengths the network stack hands to ks8851_start_xmit; the last *)
(* needs more than the budget stored at probe time.                    *)
TxLens == {60, 64, 1500, 6996, 24512}
(* Values the device's KS_TXMIR register reports (0 also stands for a   *)
(* failed exchange: ks8851_rdreg16 then returns its zeroed rx word).    *)
TxmirVals == {0, 6144}
(* Byte counts the device reports in KS_RXFHBCR and in frame envelopes. *)
RxLens == {100, 3000, 4092}
(* dev->flags values a filter-change request is made with *)
DevFlags == {{"IFF_MULTICAST"}, {"IFF_PROMISC"}, {"IFF_PROMISC", "IFF_ALLMULTI"}}
(* what the read buffer may hold when the exchange that should fill it *)
(* has failed: nothing, or the bits of a status read before            *)
StaleStatus == {{}, {"TXI"}}
(* what a read of the chip-ID register returns: the id with a revision, *)
(* or something else while the chip is not answering yet                *)
CiderVals == {"id_rev0", "id_rev1", "zero", "ones", "noise"}

(* ------------------------------------------------------------------ *)
(* Pure helpers                                                        *)
(* ------------------------------------------------------------------ *)
ALIGN(x, a) == ((x + (a - 1)) \div a) * a

(* ALIGN(rxlen-4, 4) on the unsigned rxlen: (rxlen - 4 + 3) & ~3 in   *)
(* 32-bit arithmetic.                                                *)
ALIGN_sub4_u32(rxlen) == (((rxlen - 1) \div 4) % U32_WORDS) * 4

(* a + b of two unsigned 32-bit byte counts that are multiples of 4. *)
add_u32(a, b) == (((a \div 4) + (b \div 4)) % U32_WORDS) * 4

calc_txlen(len) == 4 + ALIGN(len, 4)

RECURSIVE SumNeeded(_)
SumNeeded(q) == IF q = << >> THEN 0 ELSE calc_txlen(Head(q).len) + SumNeeded(Tail(q))

Last(s) == s[Len(s)]

Min(a, b) == IF a < b THEN a ELSE b

(* htons / htonl on the little-endian host: a byte swap. *)
htons(x) == (x % 256) * 256 + ((x \div 256) % 256)

htonl(x) == (x % 256) * 16777216 + ((x \div 256) % 256) * 65536
            + ((x \div 65536) % 256) * 256 + ((x \div 16777216) % 256)

(* What the device puts on the wire: the 16-bit byte count of a frame    *)
(* header (KS_RXFHBCR) and the envelope word in front of each frame in   *)
(* the RX FIFO, status in the low half (frame valid) and byte count in   *)
(* bits 16-27.                                                           *)
hw_rxfhbcr_word(bc) == htons(bc)

hw_envelope_word(len) == htonl(len * 65536 + 32768)

VARIABLES
  (* struct ks8851_net and the net_device *)
  tx_space, txq, fid, rc_ier, running, queue_stopped, tx_pending,
  lock, statelock,
  (* ks8851_start_xmit *)
  xmit_pc, xmit_skb, xmit_seen, xmit_ret,
  (* ks8851_tx_work / ks8851_wrpkts3 *)
  tx_pc, tx_last, tx_len, tx_buf,
  (* ks8851_irq *)
  irq_pc, status, handled,
  (* ks8851_rx_pkts3 *)
  rx_pc, rxfc, rxfct, rxfifosize, totallen, index32, buf32, rx_bufs,
  (* the device *)
  isr, hw_txq, hw_rxq, hw_rxfc, dma,
  (* history *)
  n_sent, n_rx, n_glitch, n_raise, wr_log, last_report, unacked,
  irq_log, irq_acks, rx_log, rx_iter, delivered,
  (* ks8851_probe *)
  probe_pc, iter, cider, n_reads, registered,
  (* ks8851_set_rx_mode, ks8851_rxctrl_work, ks8851_net_stop *)
  rxctrl, rxctrl_pending, rxctrl_pc, stop_pc, hw_rxcr1, hw_rxstop,
  req_log, n_stop, filt_log, discarded,
  (* history of the transmit work unit and of the status read *)
  tx_goal, n_fault, isr_failed,
  (* the transmit header on the wire *)
  hdr_pc, hdr_fid, hdr_len, hdr_ic, hdr_word,
  (* the size estimate of ks8851_rdfifolen on given probe words *)
  len_pc, len_rxd, len_size

drvVars == <<tx_space, txq, fid, rc_ier, running, queue_stopped, tx_pending, lock, statelock>>
xmitVars == <<xmit_pc, xmit_skb, xmit_seen, xmit_ret>>
txwVars == <<tx_pc, tx_last, tx_len, tx_buf>>
irqVars == <<irq_pc, status, handled>>
rxVars == <<rx_pc, rxfc, rxfct, rxfifosize, totallen, index32, buf32, rx_bufs>>
devVars == <<isr, hw_txq, hw_rxq, hw_rxfc, dma>>
histVars == <<n_sent, n_rx, n_glitch, n_raise, wr_log, last_report, unacked, irq_log, irq_acks, rx_log, rx_iter, delivered>>

probeVars == <<probe_pc, iter, cider, n_reads, registered>>
ctlVars == <<rxctrl, rxctrl_pending, rxctrl_pc, stop_pc, hw_rxcr1, hw_rxstop, req_log, n_stop, filt_log, discarded>>
ghostVars == <<tx_goal, n_fault, isr_failed>>
hdrVars == <<hdr_pc, hdr_fid, hdr_len, hdr_ic, hdr_word>>
lenVars == <<len_pc, len_rxd, len_size>>

vars == <<drvVars, xmitVars, txwVars, irqVars, rxVars, devVars, histVars,
          probeVars, ctlVars, ghostVars, hdrVars, lenVars>>

(* The settings ks8851_probe leaves in the zeroed private data. *)
NoRxctrl == [rxcr1 |-> {}, rxcr2 |-> {}, mchash |-> {}]

(* What holds after a successful ks8851_probe of the parts of the state *)
(* the probe, the filter path and device stop work on.                  *)
InitRest ==
  /\ iter = 0 /\ cider = "none" /\ n_reads = 0
  /\ rxctrl = NoRxctrl /\ rxctrl_pending = FALSE /\ rxctrl_pc = "idle"
  /\ stop_pc = "idle" /\ hw_rxcr1 = {} /\ hw_rxstop = FALSE
  /\ req_log = << >> /\ n_stop = 0 /\ filt_log = << >> /\ discarded = {}
  /\ tx_goal = << >> /\ n_fault = 0 /\ isr_failed = FALSE

(* No transmit header is being looked at on its own. *)
HdrIdle ==
  /\ hdr_pc = "idle" /\ hdr_fid = 0 /\ hdr_len = 0 /\ hdr_ic = FALSE /\ hdr_word = << >>

(* No size estimate is being looked at on its own. *)
LenIdle ==
  /\ len_pc = "idle" /\ len_rxd = << >> /\ len_size = 0

NoSkb == [seq |-> 0, len |-> 0]

(* State after ks8851_probe: the private data is zeroed, tx_space is      *)
(* KSZ8851_TX_SPACE, the transmit queue is empty, no work is pending.    *)
Init ==
  /\ tx_space = KSZ8851_TX_SPACE
  /\ txq = << >>
  /\ fid = 0
  /\ rc_ier = {}
  /\ running = FALSE
  /\ queue_stopped = TRUE
  /\ tx_pending = FALSE
  /\ lock = "free"
  /\ statelock = "free"
  /\ xmit_pc = "idle" /\ xmit_skb = NoSkb /\ xmit_seen = 0 /\ xmit_ret = "none"
  /\ tx_pc = "idle" /\ tx_last = TRUE /\ tx_len = 0 /\ tx_buf = << >>
  /\ irq_pc = "idle" /\ status = {} /\ handled = {}
  /\ rx_pc = "idle" /\ rxfc = 0 /\ rxfct = 0 /\ rxfifosize = 0 /\ totallen = 0
  /\ index32 = 0 /\ buf32 = "NULL" /\ rx_bufs = {}
  /\ isr = {} /\ hw_txq = << >> /\ hw_rxq = << >> /\ hw_rxfc = 0 /\ dma = FALSE
  /\ n_sent = 0 /\ n_rx = 0 /\ n_glitch = 0 /\ n_raise = 0
  /\ wr_log = << >> /\ last_report = KSZ8851_TX_SPACE /\ unacked = 0
  /\ irq_log = << >> /\ irq_acks = << >> /\ rx_log = << >> /\ rx_iter = << >> /\ delivered = << >>
  /\ probe_pc = "done" /\ registered = TRUE
  /\ InitRest
  /\ HdrIdle
  /\ LenIdle

(* The receiver control word ks8851_net_open writes: RXCR1_RXPAFMA |    *)
(* RXCR1_RXFCE | RXCR1_RXBE | RXCR1_RXUE | RXCR1_RXE.                    *)
RXCR1_OPEN == {"RXPAFMA", "RXFCE", "RXBE", "RXUE", "RXE"}

(* ------------------------------------------------------------------ *)
(* ks8851_net_open                                                     *)
(* ------------------------------------------------------------------ *)
ks8851_net_open ==
  /\ registered /\ stop_pc = "idle"
  /\ ~running
  /\ lock = "free"
  /\ running' = TRUE
  /\ hw_rxcr1' = RXCR1_OPEN
  /\ rc_ier' = STD_IRQ
  /\ isr' = isr \ STD_IRQ
  /\ queue_stopped' = FALSE
  /\ UNCHANGED <<tx_space, txq, fid, tx_pending, lock, statelock>>
  /\ UNCHANGED <<xmitVars, txwVars, irqVars, rxVars, histVars>>
  /\ UNCHANGED <<hw_txq, hw_rxq, hw_rxfc, dma>>
  /\ UNCHANGED <<rxctrl, rxctrl_pending, rxctrl_pc, stop_pc, hw_rxstop, req_log, n_stop, filt_log, discarded>>
  /\ UNCHANGED <<probeVars, ghostVars, hdrVars, lenVars>>

(* ------------------------------------------------------------------ *)
(* ks8851_start_xmit                                                   *)
(* ------------------------------------------------------------------ *)
(* The comparison of ks8851_start_xmit. *)
xmit_refuse_never(needed, space) == FALSE

xmit_refuse(needed, space) == needed > space

(* The stack calls in with an skb while the queue is not stopped.  Of   *)
(* the two locks the function takes the state lock only.  With it held, *)
(* needed = calc_txlen(skb->len) is compared with tx_space:             *)
(* if (needed > ks->tx_space) { ret = NETDEV_TX_BUSY; ... }             *)
xmit_locks_free_both(sl, l) == sl = "free" /\ l = "free"

xmit_locks_free(sl, l) == sl = "free"

ks8851_start_xmit_check ==
  /\ running /\ ~queue_stopped /\ stop_pc = "idle"
  /\ xmit_pc = "idle"
  /\ n_sent < MaxSends
  /\ xmit_locks_free(statelock, lock)
  /\ statelock' = "xmit"
  /\ n_sent' = n_sent + 1
  /\ xmit_seen' = tx_space
  /\ \E len \in TxLens :
       /\ xmit_skb' = [seq |-> n_sent + 1, len |-> len]
       /\ IF xmit_refuse(calc_txlen(len), tx_space)
            THEN /\ xmit_ret' = "NETDEV_TX_BUSY"
                 /\ xmit_pc' = "stop"
            ELSE /\ xmit_ret' = "NETDEV_TX_OK"
                 /\ xmit_pc' = "store"
  /\ UNCHANGED <<tx_space, txq, fid, rc_ier, running, queue_stopped, tx_pending, lock>>
  /\ UNCHANGED <<txwVars, irqVars, rxVars, devVars>>
  /\ UNCHANGED <<n_rx, n_glitch, n_raise, wr_log, last_report, unacked, irq_log, irq_acks, rx_log, rx_iter, delivered>>
  /\ UNCHANGED <<probeVars, ctlVars, ghostVars, hdrVars, lenVars>>

(* netif_stop_queue(dev), in the busy branch.  The interrupt handler     *)
(* takes the bus lock and not the state lock, so its netif_wake_queue    *)
(* can fall between the comparison and this call.                        *)
ks8851_start_xmit_stop ==
  /\ xmit_pc = "stop"
  /\ queue_stopped' = TRUE
  /\ xmit_pc' = "unlock"
  /\ UNCHANGED <<tx_space, txq, fid, rc_ier, running, tx_pending, lock, statelock>>
  /\ UNCHANGED <<xmit_skb, xmit_seen, xmit_ret, txwVars, irqVars, rxVars, devVars, histVars>>
  /\ UNCHANGED <<probeVars, ctlVars, ghostVars, hdrVars, lenVars>>

(* ks->tx_space -= needed; skb_queue_tail(&ks->txq, skb).  The interrupt *)
(* handler stores tx_space without the state lock, so the subtraction    *)
(* starts either from the value the comparison saw or from a value       *)
(* stored since.                                                         *)
xmit_enqueue_head(q, skb) == <<skb>> \o q

xmit_enqueue(q, skb) == Append(q, skb)

xmit_decrement(base, needed) == (base - needed + U16) % U16

ks8851_start_xmit_store ==
  /\ xmit_pc = "store"
  /\ \E base \in {xmit_seen, tx_space} :
       tx_space' = xmit_decrement(base, calc_txlen(xmit_skb.len))
  /\ txq' = xmit_enqueue(txq, xmit_skb)
  /\ xmit_pc' = "unlock"
  /\ UNCHANGED <<fid, rc_ier, running, queue_stopped, tx_pending, lock, statelock>>
  /\ UNCHANGED <<xmit_skb, xmit_seen, xmit_ret, txwVars, irqVars, rxVars, devVars, histVars>>
  /\ UNCHANGED <<probeVars, ctlVars, ghostVars, hdrVars, lenVars>>

(* spin_unlock; queue_work(ks8851_tx_wq, &ks->tx_work); return ret *)
ks8851_start_xmit_unlock ==
  /\ xmit_pc = "unlock"
  /\ statelock' = "free"
  /\ tx_pending' = TRUE
  /\ xmit_pc' = "idle"
  /\ xmit_skb' = NoSkb /\ xmit_seen' = 0 /\ xmit_ret' = "none"
  /\ UNCHANGED <<tx_space, txq, fid, rc_ier, running, queue_stopped, lock>>
  /\ UNCHANGED <<txwVars, irqVars, rxVars, devVars, histVars>>
  /\ UNCHANGED <<probeVars, ctlVars, ghostVars, hdrVars, lenVars>>

(* ------------------------------------------------------------------ *)
(* ks8851_tx_work and ks8851_wrpkts3                                   *)
(* ------------------------------------------------------------------ *)
(* The worker takes the pending work item, takes the bus lock and reads *)
(* skb_queue_empty; with frames queued it enables auto-enqueue and      *)
(* asserts DMA-start.                                                   *)
mutex_lock_never_waits(l) == TRUE

mutex_lock(l) == l = "free"

ks8851_tx_work_lock ==
  /\ tx_pending /\ tx_pc = "idle"
  /\ mutex_lock(lock)
  /\ tx_pending' = FALSE
  /\ lock' = "tx"
  /\ tx_last' = (txq = << >>)
  /\ IF txq = << >>
       THEN tx_pc' = "unlock" /\ dma' = dma
       ELSE tx_pc' = "wrpkts" /\ dma' = TRUE
  /\ UNCHANGED <<tx_space, txq, fid, rc_ier, running, queue_stopped, statelock>>
  /\ UNCHANGED <<tx_len, tx_buf, xmitVars, irqVars, rxVars, histVars>>
  /\ UNCHANGED <<isr, hw_txq, hw_rxq, hw_rxfc>>
  /\ UNCHANGED <<probeVars, ctlVars, ghostVars, hdrVars, lenVars>>

(* Entry of ks8851_wrpkts3: last = skb_queue_empty; kmalloc of the bulk *)
(* buffer, which may fail, and then the function returns ("enomem": it  *)
(* has returned to ks8851_tx_work without a buffer).                    *)
(* tx_goal keeps the frames that were queued when the pass began, if    *)
(* their needed bytes total less than the batch cap.                    *)
ks8851_wrpkts3_begin ==
  /\ tx_pc = "wrpkts"
  /\ tx_last' = (txq = << >>)
  /\ tx_len' = 0
  /\ tx_buf' = << >>
  /\ \E ok \in BOOLEAN :
       /\ tx_pc' = IF ok THEN "fill" ELSE "enomem"
       /\ tx_goal' = IF ok /\ SumNeeded(txq) < TX_BATCH_CAP
                       THEN [i \in 1..Len(txq) |-> txq[i].seq] ELSE << >>
  /\ UNCHANGED <<drvVars, xmitVars, irqVars, rxVars, devVars, histVars>>
  /\ UNCHANGED <<n_fault, isr_failed>>
  /\ UNCHANGED <<probeVars, ctlVars, hdrVars, lenVars>>

(* The frame-id field and the interrupt-on-completion flag of the       *)
(* control word.                                                        *)
TXFR_TXFID_MASK == 8191

TXFR_TXIC == 32768

(* A 32-bit word is kept as its four bytes, most significant first.     *)
(* (hi << 16) | lo for two 16-bit halves:                               *)
u32_of_halves(hi, lo) == <<hi \div 256, hi % 256, lo \div 256, lo % 256>>

(* htonl on the little-endian CPU *)
htonl_not_swapped(w) == w

htonl_bytes(w) == <<w[4], w[3], w[2], w[1]>>

(* fid &= TXFR_TXFID_MASK; if (txic) fid |= TXFR_TXIC *)
tx_hdr_ctrl(x, txic) == (x % (TXFR_TXFID_MASK + 1)) + (IF txic THEN TXFR_TXIC ELSE 0)

(* buf32[len32] = htonl(cpu_to_le16(txb->len) << 16 | cpu_to_le16(fid)) *)
tx_hdr_word(x, len, txic) == htonl_bytes(u32_of_halves(len % U16, tx_hdr_ctrl(x, txic)))

(* The bytes that go over the bus for a word sent with bits_per_word =  *)
(* 32: the word's most significant byte first.                          *)
spi_word32_wire(w) == w

(* The device reads the header as two little-endian 16-bit words, the   *)
(* control word and then the length.                                    *)
hw_tx_hdr_decode(wire) ==
  LET ctrl == wire[1] + 256 * wire[2]
  IN [fid |-> ctrl % (TXFR_TXFID_MASK + 1),
      txic |-> (ctrl \div TXFR_TXIC) % 2 = 1,
      len |-> wire[3] + 256 * wire[4]]

(* if (last || len >= 6144) fid |= TXFR_TXIC, with len the batch length *)
(* before this frame is added.                                          *)
wrpkts3_txic(last, len) == last \/ len >= TX_BATCH_CAP

wrpkts3_dequeue(q) == [skb |-> Head(q), rest |-> Tail(q)]

(* The test of the packing loop: for (; !last && len < 6144; ) *)
wrpkts3_more_single(last, len) == ~last /\ len = 0

wrpkts3_more(last, len) == ~last /\ len < TX_BATCH_CAP

(* One iteration of the packing loop. *)
ks8851_wrpkts3_fill ==
  /\ tx_pc = "fill"
  /\ wrpkts3_more(tx_last, tx_len)
  /\ IF txq = << >>
       THEN /\ tx_last' = TRUE
            /\ UNCHANGED <<txq, fid, tx_len, tx_buf>>
       ELSE LET d == wrpkts3_dequeue(txq)
                last == (d.rest = << >>)
            IN /\ txq' = d.rest
               /\ tx_last' = last
               /\ fid' = (fid + 1) % U8
               /\ tx_buf' = Append(tx_buf, [seq |-> d.skb.seq, len |-> d.skb.len,
                                            fid |-> fid,
                                            ic |-> wrpkts3_txic(last, tx_len),
                                            hdr |-> tx_hdr_word(fid, d.skb.len,
                                                      wrpkts3_txic(last, tx_len))])
               /\ tx_len' = (tx_len + calc_txlen(d.skb.len)) % U16
  /\ UNCHANGED <<tx_space, rc_ier, running, queue_stopped, tx_pending, lock, statelock>>
  /\ UNCHANGED <<tx_pc, xmitVars, irqVars, rxVars, devVars, histVars>>
  /\ UNCHANGED <<probeVars, ctlVars, ghostVars, hdrVars, lenVars>>

(* After the loop: one spi_sync of the whole buffer if len > 0 (a failed *)
(* exchange leaves the device without the frames), then kfree.           *)
ks8851_wrpkts3_write ==
  /\ tx_pc = "fill"
  /\ ~wrpkts3_more(tx_last, tx_len)
  /\ IF tx_len > 0
       THEN /\ wr_log' = Append(wr_log, [i \in 1..Len(tx_buf) |-> tx_buf[i].seq])
            /\ unacked' = unacked + SumNeeded(tx_buf)
            /\ \E ok \in BOOLEAN :
                 hw_txq' = IF ok THEN hw_txq \o [i \in 1..Len(tx_buf) |->
                                              hw_tx_hdr_decode(spi_word32_wire(tx_buf[i].hdr)).txic]
                                 ELSE hw_txq
       ELSE UNCHANGED <<wr_log, unacked, hw_txq>>
  /\ tx_buf' = << >>
  /\ tx_pc' = "check"
  /\ UNCHANGED <<drvVars, xmitVars, irqVars, rxVars>>
  /\ UNCHANGED <<tx_last, tx_len, isr, hw_rxq, hw_rxfc, dma>>
  /\ UNCHANGED <<n_sent, n_rx, n_glitch, n_raise, last_report, irq_log, irq_acks, rx_log, rx_iter, delivered>>
  /\ tx_goal' = << >>
  /\ UNCHANGED <<n_fault, isr_failed>>
  /\ UNCHANGED <<probeVars, ctlVars, hdrVars, lenVars>>

(* while (!last) { ks8851_wrpkts3(ks); last = skb_queue_empty(&ks->txq); } *)
(* and, once the queue is empty, the write that deasserts DMA-start.      *)
ks8851_tx_work_check ==
  /\ tx_pc \in {"check", "enomem"}
  /\ tx_last' = (txq = << >>)
  /\ IF txq = << >>
       THEN tx_pc' = "unlock" /\ dma' = FALSE
       ELSE tx_pc' = "wrpkts" /\ dma' = dma
  /\ UNCHANGED <<drvVars, xmitVars, irqVars, rxVars, histVars>>
  /\ UNCHANGED <<tx_len, tx_buf, isr, hw_txq, hw_rxq, hw_rxfc>>
  /\ UNCHANGED <<probeVars, ctlVars, ghostVars, hdrVars, lenVars>>

ks8851_tx_work_unlock ==
  /\ tx_pc = "unlock"
  /\ lock' = "free"
  /\ tx_pc' = "idle"
  /\ tx_last' = TRUE /\ tx_len' = 0
  /\ UNCHANGED <<tx_space, txq, fid, rc_ier, running, queue_stopped, tx_pending, statelock>>
  /\ UNCHANGED <<tx_buf, xmitVars, irqVars, rxVars, devVars, histVars>>
  /\ UNCHANGED <<probeVars, ctlVars, ghostVars, hdrVars, lenVars>>

(* ------------------------------------------------------------------ *)
(* The device: transmit side                                           *)
(* ------------------------------------------------------------------ *)
(* The device sends the frame at the head of its TX FIFO; a frame whose *)
(* header carries TXFR_TXIC raises the transmit-done interrupt.         *)
hw_tx_done ==
  /\ hw_txq # << >>
  /\ hw_txq' = Tail(hw_txq)
  /\ isr' = IF Head(hw_txq) THEN isr \cup {"TXI"} ELSE isr
  /\ UNCHANGED <<drvVars, xmitVars, txwVars, irqVars, rxVars, histVars>>
  /\ UNCHANGED <<hw_rxq, hw_rxfc, dma>>
  /\ UNCHANGED <<probeVars, ctlVars, ghostVars, hdrVars, lenVars>>

(* ------------------------------------------------------------------ *)
(* ks8851_irq                                                          *)
(* ------------------------------------------------------------------ *)
(* The interrupt line is asserted while an enabled source is pending.   *)
(* The handler thread takes the bus lock and reads KS_ISR once.         *)
ks8851_irq_enter ==
  /\ irq_pc = "idle"
  /\ (isr \cap rc_ier) # {}
  /\ lock = "free"
  /\ lock' = "irq"
  /\ status' = isr
  /\ handled' = {}
  /\ irq_pc' = "bits"
  /\ irq_log' = <<"isr_read">>
  /\ irq_acks' = << >>
  /\ UNCHANGED <<tx_space, txq, fid, rc_ier, running, queue_stopped, tx_pending, statelock>>
  /\ UNCHANGED <<xmitVars, txwVars, rxVars, devVars>>
  /\ UNCHANGED <<n_sent, n_rx, n_glitch, n_raise, wr_log, last_report, unacked, rx_log, rx_iter, delivered>>
  /\ isr_failed' = FALSE
  /\ UNCHANGED <<tx_goal, n_fault>>
  /\ UNCHANGED <<probeVars, ctlVars, hdrVars, lenVars>>

(* The same with the exchange of the read failing: ks8851_32bitrdreg16  *)
(* logs the failure and returns htons((u16)rxd[0]) all the same, which  *)
(* is what the buffer held.                                             *)
irq_status_after_failed_read(stale) == stale

ks8851_irq_enter_failed ==
  /\ n_fault < MaxBusFaults
  /\ irq_pc = "idle"
  /\ (isr \cap rc_ier) # {}
  /\ lock = "free"
  /\ lock' = "irq"
  /\ \E st \in StaleStatus : status' = irq_status_after_failed_read(st)
  /\ handled' = {}
  /\ irq_pc' = "bits"
  /\ irq_log' = <<"isr_read">>
  /\ irq_acks' = << >>
  /\ UNCHANGED <<tx_space, txq, fid, rc_ier, running, queue_stopped, tx_pending, statelock>>
  /\ UNCHANGED <<xmitVars, txwVars, rxVars, devVars>>
  /\ UNCHANGED <<n_sent, n_rx, n_glitch, n_raise, wr_log, last_report, unacked, rx_log, rx_iter, delivered>>
  /\ isr_failed' = TRUE
  /\ n_fault' = n_fault + 1
  /\ UNCHANGED tx_goal
  /\ UNCHANGED <<probeVars, ctlVars, hdrVars, lenVars>>

(* The bits the handler marks handled (lines 721-756). *)
irq_handled(st) == st \cap {"LCI", "LDI", "RXPSI", "TXI", "RXI", "SPIBEI"}

(* What the per-bit blocks before the acknowledgment do, in order. *)
irq_bit_events(st) ==
  (IF "LDI" \in st THEN <<"wkevt">> ELSE << >>) \o
  (IF "TXI" \in st THEN <<"txmir", "wake">> ELSE << >>) \o
  (IF "SPIBEI" \in st THEN <<"spi_err">> ELSE << >>)

(* Where the handler goes after a given point, by the status it read:   *)
(* the per-bit blocks are followed by the write of KS_ISR, that by the  *)
(* receive pipeline if receive-done was set, that by the filter update  *)
(* if RXPSI was set.                                                    *)
irq_after_ack(st) ==
  IF "RXI" \in st THEN "rx" ELSE IF "RXPSI" \in st THEN "rxpsi" ELSE "exit"

irq_after_rx_short_circuit(st) == "exit"

irq_after_rx(st) == IF "RXPSI" \in st THEN "rxpsi" ELSE "exit"

irq_after_bits_no_ack(st) == irq_after_ack(st)

irq_after_bits(st) == "ack"

(* The per-bit blocks: link-down rewrites the wake-event field of       *)
(* KS_PMECR; transmit-done stores KS_TXMIR into tx_space (without the   *)
(* state lock) and wakes the queue.                                     *)
ks8851_irq_bits ==
  /\ irq_pc = "bits"
  /\ handled' = irq_handled(status)
  /\ IF "TXI" \in status
       THEN /\ \E v \in TxmirVals :
                 /\ tx_space' = v
                 /\ last_report' = v
            /\ unacked' = 0
            /\ queue_stopped' = FALSE
       ELSE UNCHANGED <<tx_space, last_report, unacked, queue_stopped>>
  /\ irq_log' = irq_log \o irq_bit_events(status)
  /\ irq_pc' = irq_after_bits(status)
  /\ UNCHANGED <<txq, fid, rc_ier, running, tx_pending, lock, statelock>>
  /\ UNCHANGED <<status, xmitVars, txwVars, rxVars, devVars>>
  /\ UNCHANGED <<n_sent, n_rx, n_glitch, n_raise, wr_log, irq_acks, rx_log, rx_iter, delivered>>
  /\ UNCHANGED <<probeVars, ctlVars, ghostVars, hdrVars, lenVars>>

(* ks8851_wrreg16(ks, KS_ISR, handled): the device clears the bits      *)
(* written as one.  With receive-done set the receive pipeline follows. *)
ks8851_irq_ack ==
  /\ irq_pc = "ack"
  /\ isr' = isr \ handled
  /\ irq_acks' = Append(irq_acks, handled)
  /\ irq_log' = Append(irq_log, "ack")
  /\ irq_pc' = irq_after_ack(status)
  /\ rx_pc' = IF "RXI" \in status THEN "count" ELSE rx_pc
  /\ UNCHANGED <<drvVars, xmitVars, txwVars, status, handled>>
  /\ UNCHANGED <<rxfc, rxfct, rxfifosize, totallen, index32, buf32, rx_bufs>>
  /\ UNCHANGED <<hw_txq, hw_rxq, hw_rxfc, dma>>
  /\ UNCHANGED <<n_sent, n_rx, n_glitch, n_raise, wr_log, last_report, unacked, rx_log, rx_iter, delivered>>
  /\ UNCHANGED <<probeVars, ctlVars, ghostVars, hdrVars, lenVars>>

(* if (status & IRQ_RXPSI): the four hash buckets are written to the   *)
(* device from ks->rxctrl, each by a bus exchange of its own, under the *)
(* bus lock and without the state lock.  filt_log takes what is written. *)
ks8851_irq_rxpsi ==
  /\ irq_pc = "rxpsi"
  /\ irq_log' = Append(irq_log, "filter")
  /\ filt_log' = Append(filt_log, [NoRxctrl EXCEPT !.mchash = rxctrl.mchash])
  /\ irq_pc' = "rxpsi_cr"
  /\ UNCHANGED <<drvVars, xmitVars, txwVars, status, handled, rxVars, devVars>>
  /\ UNCHANGED <<n_sent, n_rx, n_glitch, n_raise, wr_log, last_report, unacked, irq_acks, rx_log, rx_iter, delivered>>
  /\ UNCHANGED <<rxctrl, rxctrl_pending, rxctrl_pc, stop_pc, hw_rxcr1, hw_rxstop, req_log, n_stop, discarded>>
  /\ UNCHANGED <<probeVars, ghostVars, hdrVars, lenVars>>

(* Then the two control words, RXCR2 and RXCR1, from ks->rxctrl as it   *)
(* is by now.                                                           *)
ks8851_irq_rxpsi_cr ==
  /\ irq_pc = "rxpsi_cr"
  /\ filt_log' = [filt_log EXCEPT ![Len(filt_log)] =
                    [@ EXCEPT !.rxcr2 = rxctrl.rxcr2, !.rxcr1 = rxctrl.rxcr1]]
  /\ hw_rxcr1' = rxctrl.rxcr1
  /\ irq_pc' = "exit"
  /\ UNCHANGED <<drvVars, xmitVars, txwVars, status, handled, rxVars, devVars>>
  /\ UNCHANGED <<histVars>>
  /\ UNCHANGED <<rxctrl, rxctrl_pending, rxctrl_pc, stop_pc, hw_rxstop, req_log, n_stop, discarded>>
  /\ UNCHANGED <<probeVars, ghostVars, hdrVars, lenVars>>

irq_after_unlock_always(st) == "link"

(* if (status & IRQ_LCI) mii_check_link(&ks->mii); return IRQ_HANDLED; *)
irq_after_unlock(st) == IF "LCI" \in st THEN "link" ELSE "idle"

(* rx_over_errors++ on receive-overrun, then mutex_unlock.  The locals  *)
(* of a receive attempt made in this interrupt are gone by now.         *)
ks8851_irq_exit ==
  /\ irq_pc = "exit"
  /\ irq_log' = irq_log \o (IF "RXOI" \in status THEN <<"rx_over">> ELSE << >>)
                        \o <<"unlock">>
  /\ lock' = "free"
  /\ irq_pc' = irq_after_unlock(status)
  /\ rxfc' = 0 /\ rxfct' = 0 /\ rxfifosize' = 0 /\ totallen' = 0
  /\ index32' = 0 /\ buf32' = "NULL"
  /\ rx_log' = << >> /\ rx_iter' = << >> /\ delivered' = << >>
  /\ UNCHANGED <<tx_space, txq, fid, rc_ier, running, queue_stopped, tx_pending, statelock>>
  /\ UNCHANGED <<xmitVars, txwVars, status, handled, rx_pc, rx_bufs, devVars>>
  /\ UNCHANGED <<n_sent, n_rx, n_glitch, n_raise, wr_log, last_report, unacked, irq_acks>>
  /\ isr_failed' = FALSE
  /\ UNCHANGED <<tx_goal, n_fault>>
  /\ UNCHANGED <<probeVars, ctlVars, hdrVars, lenVars>>

(* mii_check_link after the unlock: its register read goes through      *)
(* ks8851_phy_read, which takes and releases the bus lock itself.       *)
ks8851_irq_link ==
  /\ irq_pc = "link"
  /\ lock = "free"
  /\ irq_log' = Append(irq_log, "link")
  /\ irq_pc' = "idle"
  /\ UNCHANGED <<drvVars, xmitVars, txwVars, status, handled, rxVars, devVars>>
  /\ UNCHANGED <<n_sent, n_rx, n_glitch, n_raise, wr_log, last_report, unacked, irq_acks, rx_log, rx_iter, delivered>>
  /\ UNCHANGED <<probeVars, ctlVars, ghostVars, hdrVars, lenVars>>

(* ------------------------------------------------------------------ *)
(* Specifications                                                      *)
(* ------------------------------------------------------------------ *)
(* Transmit path: the producer, the transmit work unit, the device's   *)
(* transmitter and the interrupt handler serving transmit-done.        *)
NextTx ==
  \/ ks8851_net_open
  \/ ks8851_start_xmit_check
  \/ ks8851_start_xmit_stop
  \/ ks8851_start_xmit_store
  \/ ks8851_start_xmit_unlock
  \/ ks8851_tx_work_lock
  \/ ks8851_wrpkts3_begin
  \/ ks8851_wrpkts3_fill
  \/ ks8851_wrpkts3_write
  \/ ks8851_tx_work_check
  \/ ks8851_tx_work_unlock
  \/ hw_tx_done
  \/ ks8851_irq_enter
  \/ ks8851_irq_bits
  \/ ks8851_irq_ack
  \/ ks8851_irq_exit

SpecTx == Init /\ [][NextTx]_vars

(* The same, started from any budget the driver can hold when the device *)
(* is opened: tx_space survives ks8851_net_stop, so it is the initial    *)
(* KSZ8851_TX_SPACE or the value the last transmit-done interrupt read.  *)
InitSend ==
  /\ tx_space \in {KSZ8851_TX_SPACE} \cup TxmirVals
  /\ txq = << >>
  /\ fid = 0
  /\ rc_ier = {}
  /\ running = FALSE
  /\ queue_stopped = TRUE
  /\ tx_pending = FALSE
  /\ lock = "free"
  /\ statelock = "free"
  /\ xmit_pc = "idle" /\ xmit_skb = NoSkb /\ xmit_seen = 0 /\ xmit_ret = "none"
  /\ tx_pc = "idle" /\ tx_last = TRUE /\ tx_len = 0 /\ tx_buf = << >>
  /\ irq_pc = "idle" /\ status = {} /\ handled = {}
  /\ rx_pc = "idle" /\ rxfc = 0 /\ rxfct = 0 /\ rxfifosize = 0 /\ totallen = 0
  /\ index32 = 0 /\ buf32 = "NULL" /\ rx_bufs = {}
  /\ isr = {} /\ hw_txq = << >> /\ hw_rxq = << >> /\ hw_rxfc = 0 /\ dma = FALSE
  /\ n_sent = 0 /\ n_rx = 0 /\ n_glitch = 0 /\ n_raise = 0
  /\ wr_log = << >> /\ last_report = tx_space /\ unacked = 0
  /\ irq_log = << >> /\ irq_acks = << >> /\ rx_log = << >> /\ rx_iter = << >> /\ delivered = << >>
  /\ probe_pc = "done" /\ registered = TRUE
  /\ InitRest
  /\ HdrIdle
  /\ LenIdle

SpecSend == InitSend /\ [][NextTx]_vars

(* ------------------------------------------------------------------ *)
(* The device: receive side and other interrupt sources                *)
(* ------------------------------------------------------------------ *)
(* A frame arrives: it is queued in the RX FIFO behind its envelope,    *)
(* the frame count goes up and receive-done is raised.                  *)
hw_rx_frame ==
  /\ n_rx < MaxRxFrames
  /\ n_rx' = n_rx + 1
  /\ \E len \in RxLens :
       hw_rxq' = Append(hw_rxq, [env |-> len, bc |-> len])
  /\ hw_rxfc' = hw_rxfc + 1
  /\ isr' = isr \cup {"RXI"}
  /\ UNCHANGED <<drvVars, xmitVars, txwVars, irqVars, rxVars, hw_txq, dma>>
  /\ UNCHANGED <<n_sent, n_glitch, n_raise, wr_log, last_report, unacked, irq_log, irq_acks, rx_log, rx_iter, delivered>>
  /\ UNCHANGED <<probeVars, ctlVars, ghostVars, hdrVars, lenVars>>

(* The device's registers disagree with what sits in the FIFO: the      *)
(* frame count, or the byte count reported for one frame, is off.       *)
hw_rx_disagree ==
  /\ irq_pc = "idle"
  /\ n_glitch < MaxGlitches
  /\ n_glitch' = n_glitch + 1
  /\ \/ /\ \E c \in 0..MaxRxFrames : c # hw_rxfc /\ hw_rxfc' = c
        /\ UNCHANGED hw_rxq
     \/ /\ \E i \in 1..Len(hw_rxq), bc \in RxLens :
             /\ bc # hw_rxq[i].bc
             /\ hw_rxq' = [hw_rxq EXCEPT ![i].bc = bc]
        /\ UNCHANGED hw_rxfc
  /\ UNCHANGED <<drvVars, xmitVars, txwVars, irqVars, rxVars, isr, hw_txq, dma>>
  /\ UNCHANGED <<n_sent, n_rx, n_raise, wr_log, last_report, unacked, irq_log, irq_acks, rx_log, rx_iter, delivered>>
  /\ UNCHANGED <<probeVars, ctlVars, ghostVars, hdrVars, lenVars>>

(* Another source raises its bit in KS_ISR (receive-done is raised by a *)
(* frame arriving, hw_rx_frame).                                        *)
hw_raise ==
  /\ n_raise < MaxRaises
  /\ n_raise' = n_raise + 1
  /\ \E b \in IRQ_BITS \ {"RXI"} : isr' = isr \cup {b}
  /\ UNCHANGED <<drvVars, xmitVars, txwVars, irqVars, rxVars, hw_txq, hw_rxq, hw_rxfc, dma>>
  /\ UNCHANGED <<n_sent, n_rx, n_glitch, wr_log, last_report, unacked, irq_log, irq_acks, rx_log, rx_iter, delivered>>
  /\ UNCHANGED <<probeVars, ctlVars, ghostVars, hdrVars, lenVars>>

(* ------------------------------------------------------------------ *)
(* ks8851_rdfifolen                                                    *)
(* ------------------------------------------------------------------ *)
(* The accumulation loop over the words read back, rxd[count]:          *)
(*   if (tmpfifosize >= MAX_RXFIFO_SIZE) break;                         *)
(*   tmpfifosize += ALIGN(htons((u16)rxd[count]) & 0xfff, 4) + 4;       *)
RECURSIVE rdfifolen_loop(_, _, _)
rdfifolen_loop(rxd, count, tmpfifosize) ==
  IF count > Len(rxd) \/ tmpfifosize >= MAX_RXFIFO_SIZE
    THEN tmpfifosize
    ELSE rdfifolen_loop(rxd, count + 1,
           (tmpfifosize + ALIGN(htons(rxd[count] % U16) % 4096, 4) + 4) % U16)

(* The estimate without the limit of MAX_RXFIFO_SIZE. *)
rdfifolen_size_uncapped(rxd) == (rdfifolen_loop(rxd, 1, 0) + 4) % U16

(* tmpfifosize += 4; rxfifosize = min(tmpfifosize, MAX_RXFIFO_SIZE) *)
rdfifolen_size(rxd) ==
  LET tmpfifosize == (rdfifolen_loop(rxd, 1, 0) + 4) % U16
  IN IF tmpfifosize >= MAX_RXFIFO_SIZE THEN MAX_RXFIFO_SIZE ELSE tmpfifosize

(* The words the chained exchange of fc transfers reads back: the byte  *)
(* count of each queued frame, and whatever the device answers for a    *)
(* frame it does not hold.                                              *)
hw_probe_words(fc) ==
  { rxd \in [1..fc -> {hw_rxfhbcr_word(l) : l \in RxLens}] :
      \A i \in 1..fc : i <= Len(hw_rxq) => rxd[i] = hw_rxfhbcr_word(hw_rxq[i].bc) }

(* ------------------------------------------------------------------ *)
(* ks8851_rx_pkts3                                                     *)
(* ------------------------------------------------------------------ *)
txSide == <<tx_space, txq, fid, queue_stopped, tx_pending, statelock, xmitVars, txwVars,
            hw_txq, n_sent, wr_log, last_report, unacked>>

irqSide == <<rc_ier, running, lock, status, handled, isr, irq_acks, n_rx, n_glitch, n_raise>>

(* The pipeline returns to ks8851_irq, which goes on after line 766. *)
rx_return ==
  /\ rx_pc' = "idle"
  /\ irq_pc' = irq_after_rx(status)

(* if (rxfc == 0) return; *)
rx_count_zero_never(fc) == FALSE

rx_count_zero(fc) == fc = 0

(* rxfc = ks8851_rdreg8(ks, KS_RXFC); a count of zero ends the attempt. *)
ks8851_rx_pkts3_count ==
  /\ irq_pc = "rx" /\ rx_pc = "count"
  /\ rxfc' = hw_rxfc
  /\ rxfct' = hw_rxfc
  /\ rx_log' = <<[op |-> "rxfc", n |-> hw_rxfc]>>
  /\ irq_log' = Append(irq_log, "rx")
  /\ UNCHANGED <<rxfifosize, totallen, index32, buf32, rx_iter, delivered>>
  /\ IF rx_count_zero(hw_rxfc)
       THEN rx_return
       ELSE rx_pc' = "probe" /\ irq_pc' = irq_pc
  /\ UNCHANGED <<txSide, irqSide, rx_bufs, hw_rxq, hw_rxfc, dma>>
  /\ UNCHANGED <<probeVars, ctlVars, ghostVars, hdrVars, lenVars>>

(* rxfifosize = ks8851_rdfifolen(ks, rxfc): the two allocations, one    *)
(* spi_sync of a message of rxfc chained transfers, the size.  A failed *)
(* allocation returns -ENOMEM and the attempt ends.                     *)
ks8851_rx_pkts3_probe ==
  /\ irq_pc = "rx" /\ rx_pc = "probe"
  /\ \/ /\ rx_log' = Append(rx_log, [op |-> "enomem", n |-> 0])
        /\ rx_return
        /\ UNCHANGED rxfifosize
     \/ /\ \E rxd \in hw_probe_words(rxfc) : rxfifosize' = rdfifolen_size(rxd)
        /\ rx_log' = Append(rx_log, [op |-> "probe", n |-> rxfc])
        /\ rx_pc' = "fetch" /\ irq_pc' = irq_pc
  /\ UNCHANGED <<txSide, irqSide, rxfc, rxfct, totallen, index32, buf32, rx_bufs>>
  /\ UNCHANGED <<hw_rxq, hw_rxfc, dma, irq_log, rx_iter, delivered>>
  /\ UNCHANGED <<probeVars, ctlVars, ghostVars, hdrVars, lenVars>>

(* buf = kmalloc(rxfifosize) (NULL ends the attempt); KS_RXFDPR;         *)
(* KS_RXQCR with RXQCR_SDA; ks8851_rdfifo(ks, buf, rxfifosize).          *)
ks8851_rx_pkts3_fetch ==
  /\ irq_pc = "rx" /\ rx_pc = "fetch"
  /\ \/ /\ rx_log' = Append(rx_log, [op |-> "enomem", n |-> 0])
        /\ rx_return
        /\ UNCHANGED <<rx_bufs, buf32, index32, dma>>
     \/ /\ rx_bufs' = rx_bufs \cup {"buf"}
        /\ buf32' = "buf"
        /\ index32' = 1
        /\ dma' = TRUE
        /\ rx_log' = Append(rx_log, [op |-> "bulk", n |-> rxfifosize])
        /\ rx_pc' = "loop" /\ irq_pc' = irq_pc
  /\ UNCHANGED <<txSide, irqSide, rxfc, rxfct, rxfifosize, totallen>>
  /\ UNCHANGED <<hw_rxq, hw_rxfc, irq_log, rx_iter, delivered>>
  /\ UNCHANGED <<probeVars, ctlVars, ghostVars, hdrVars, lenVars>>

(* The word at buf32[index32]: the envelope of the next frame while the *)
(* index lies inside the fetched buffer and the device holds that       *)
(* frame; otherwise whatever lies there.                                *)
rx_envelope_words(k) ==
  IF (index32 + 1) * 4 <= rxfifosize /\ k <= Len(hw_rxq)
    THEN {hw_envelope_word(hw_rxq[k].env)}
    ELSE {hw_envelope_word(l) : l \in RxLens}

(* rxlen = (htonl(buf32[index32]) >> 16) & 0xfff *)
rx_decode_rxlen(w) == (htonl(w) \div 65536) % 4096

(* The length handed up with the skb: rxalign = ALIGN(rxlen - 4, 4). *)
rx_skb_len_rxlen(rxlen) == rxlen

rx_skb_len(rxlen) == ALIGN_sub4_u32(rxlen)

(* if (totallen > rxfifosize), and inside it                            *)
(* if (rxfifosize >= MAX_RXFIFO_SIZE) break;                            *)
rx_short(tl, size) == tl > size

rx_capped(size) == size >= MAX_RXFIFO_SIZE

(* The second test of totallen > rxfifosize, after the frame has been   *)
(* handed up: kfree(buf1); break.                                       *)
rx_stop_after_recovery_never(tl, size) == FALSE

rx_stop_after_recovery(tl, size) == tl > size

(* One iteration of the parse loop, for (index32 = 1; rxfc > 0; rxfc--) *)
ks8851_rx_pkts3_frame ==
  /\ irq_pc = "rx" /\ rx_pc = "loop"
  /\ rxfc > 0
  /\ \E w \in rx_envelope_words(rxfct - rxfc + 1), ok \in BOOLEAN :
       LET rxlen == rx_decode_rxlen(w)
           rxalign == rx_skb_len(rxlen)
           rxlen32 == (ALIGN(rxlen, 4) \div 4) % U16
           tl == add_u32(totallen, rxalign)
           skb == [len |-> rxalign, rxlen |-> rxlen]
       IN /\ totallen' = tl
          /\ rx_iter' = Append(rx_iter, [rxlen |-> rxlen, at |-> 4 * index32,
                                         ends |-> 4 * (index32 + 1 + rxlen32),
                                         short |-> rx_short(tl, rxfifosize)])
          /\ IF rx_short(tl, rxfifosize)
               THEN IF rx_capped(rxfifosize)
                      THEN (* break *)
                           /\ ok
                           /\ rx_pc' = "ack" /\ irq_pc' = irq_pc
                           /\ UNCHANGED <<rxfc, index32, buf32, rx_log, delivered>>
                      ELSE IF ~ok
                             THEN (* buf1 = kzalloc(rxlen) is NULL: return *)
                                  /\ rx_log' = Append(rx_log, [op |-> "enomem", n |-> 0])
                                  /\ rx_return
                                  /\ UNCHANGED <<rxfc, index32, buf32, delivered>>
                             ELSE (* copy, second ks8851_rdfifo, hand up, kfree(buf1) *)
                                  /\ rx_log' = Append(rx_log, [op |-> "recovery",
                                                               n |-> tl - rxfifosize])
                                  /\ buf32' = "buf1"
                                  /\ index32' = rxlen32
                                  /\ delivered' = Append(delivered, skb)
                                  /\ IF rx_stop_after_recovery(tl, rxfifosize)
                                       THEN rx_pc' = "ack" /\ rxfc' = rxfc
                                       ELSE /\ rxfc' = rxfc - 1
                                            /\ rx_pc' = IF rxfc = 1 THEN "ack" ELSE "loop"
                                  /\ irq_pc' = irq_pc
               ELSE /\ ok
                    /\ index32' = (index32 + 1 + rxlen32) % U16
                    /\ delivered' = Append(delivered, skb)
                    /\ rxfc' = rxfc - 1
                    /\ rx_pc' = IF rxfc = 1 THEN "ack" ELSE "loop"
                    /\ irq_pc' = irq_pc
                    /\ UNCHANGED <<buf32, rx_log>>
  /\ UNCHANGED <<txSide, irqSide, irq_log, rxfct, rxfifosize, rx_bufs, hw_rxq, hw_rxfc, dma>>
  /\ UNCHANGED <<probeVars, ctlVars, ghostVars, hdrVars, lenVars>>

(* ks8851_wrreg16(ks, KS_RXQCR, ks->rc_rxqcr | RXQCR_RRXEF); kfree(buf). *)
(* The device ends DMA access and releases the frames it had counted.    *)
ks8851_rx_pkts3_ack ==
  /\ irq_pc = "rx" /\ rx_pc = "ack"
  /\ rx_log' = Append(rx_log, [op |-> "ack", n |-> 0])
  /\ dma' = FALSE
  /\ rx_bufs' = rx_bufs \ {"buf"}
  /\ hw_rxq' = SubSeq(hw_rxq, Min(rxfct, Len(hw_rxq)) + 1, Len(hw_rxq))
  /\ hw_rxfc' = Len(hw_rxq) - Min(rxfct, Len(hw_rxq))
  /\ rx_return
  /\ UNCHANGED <<txSide, irqSide, rxfc, rxfct, rxfifosize, totallen, index32, buf32>>
  /\ UNCHANGED <<irq_log, rx_iter, delivered>>
  /\ UNCHANGED <<probeVars, ctlVars, ghostVars, hdrVars, lenVars>>

(* Receive path: frames arriving at the device, its registers possibly  *)
(* disagreeing with the FIFO, and the interrupt handler running the     *)
(* receive pipeline.                                                    *)
NextRx ==
  \/ ks8851_net_open
  \/ hw_rx_frame
  \/ hw_rx_disagree
  \/ ks8851_irq_enter
  \/ ks8851_irq_bits
  \/ ks8851_irq_ack
  \/ ks8851_irq_exit
  \/ ks8851_rx_pkts3_count
  \/ ks8851_rx_pkts3_probe
  \/ ks8851_rx_pkts3_fetch
  \/ ks8851_rx_pkts3_frame
  \/ ks8851_rx_pkts3_ack

SpecRx == Init /\ [][NextRx]_vars

(* The dispatcher: any combination of interrupt sources, frames arriving *)
(* at the device, the whole of ks8851_irq with the receive pipeline.     *)
NextIrq ==
  \/ ks8851_net_open
  \/ hw_raise
  \/ hw_rx_frame
  \/ ks8851_irq_enter
  \/ ks8851_irq_bits
  \/ ks8851_irq_ack
  \/ ks8851_irq_rxpsi
  \/ ks8851_irq_rxpsi_cr
  \/ ks8851_irq_exit
  \/ ks8851_irq_link
  \/ ks8851_rx_pkts3_count
  \/ ks8851_rx_pkts3_probe
  \/ ks8851_rx_pkts3_fetch
  \/ ks8851_rx_pkts3_frame
  \/ ks8851_rx_pkts3_ack

SpecIrq == Init /\ [][NextIrq]_vars

(* The interrupt handler with a bus on which the read of the status may *)
(* fail; nothing is received.                                           *)
NextFault ==
  \/ ks8851_net_open
  \/ hw_raise
  \/ ks8851_irq_enter
  \/ ks8851_irq_enter_failed
  \/ ks8851_irq_bits
  \/ ks8851_irq_ack
  \/ ks8851_irq_rxpsi
  \/ ks8851_irq_rxpsi_cr
  \/ ks8851_irq_exit
  \/ ks8851_irq_link

SpecFault == Init /\ [][NextFault]_vars

(* ------------------------------------------------------------------ *)
(* ks8851_set_rx_mode and ks8851_rxctrl_work                           *)
(* ------------------------------------------------------------------ *)
(* The hash-table bits of the addresses on the device's multicast list, *)
(* which holds one address.                                             *)
McListHash == {"bucket"}

(* The settings computed from dev->flags: the mode bits and the hash    *)
(* table, then the bits or-ed in for every mode.                        *)
rx_mode_settings(flags) ==
  LET some == "IFF_PROMISC" \notin flags /\ "IFF_ALLMULTI" \notin flags
                /\ "IFF_MULTICAST" \in flags /\ McListHash # {}
      mode == IF "IFF_PROMISC" \in flags THEN {"RXAE", "RXINVF"}
              ELSE IF "IFF_ALLMULTI" \in flags
                     THEN {"RXME", "RXAE", "RXPAFMA", "RXMAFMA"}
                     ELSE IF some THEN {"RXME", "RXPAFMA"}
                                  ELSE {"RXPAFMA"}
  IN [rxcr1 |-> mode \cup {"RXUE", "RXBE", "RXE", "RXFCE"},
      rxcr2 |-> {"SRDBL_FRAME"},
      mchash |-> IF some THEN McListHash ELSE {}]

(* if (memcmp(&rxctrl, &ks->rxctrl, sizeof(rxctrl)) != 0) *)
rxctrl_differs_always(new, stored) == TRUE

rxctrl_differs(new, stored) == new # stored

(* The stack asks for the filter to follow dev->flags.  Under the state *)
(* lock the computed settings are compared with the stored ones; only   *)
(* when they differ are they stored and the work item scheduled.        *)
ks8851_set_rx_mode ==
  /\ running /\ stop_pc = "idle"
  /\ Len(req_log) < MaxFilterReqs
  /\ statelock = "free"
  /\ \E flags \in DevFlags :
       LET new == rx_mode_settings(flags)
       IN /\ req_log' = Append(req_log, new)
          /\ IF rxctrl_differs(new, rxctrl)
               THEN rxctrl' = new /\ rxctrl_pending' = TRUE
               ELSE UNCHANGED <<rxctrl, rxctrl_pending>>
  /\ UNCHANGED <<rxctrl_pc, stop_pc, hw_rxcr1, hw_rxstop, n_stop, filt_log, discarded>>
  /\ UNCHANGED <<drvVars, xmitVars, txwVars, irqVars, rxVars, devVars, histVars>>
  /\ UNCHANGED <<probeVars, ghostVars, hdrVars, lenVars>>

(* The worker takes the pending work item and the bus lock. *)
ks8851_rxctrl_work_lock ==
  /\ rxctrl_pending /\ rxctrl_pc = "idle"
  /\ mutex_lock(lock)
  /\ rxctrl_pending' = FALSE
  /\ lock' = "rxctrl"
  /\ rxctrl_pc' = "locked"
  /\ UNCHANGED <<tx_space, txq, fid, rc_ier, running, queue_stopped, tx_pending, statelock>>
  /\ UNCHANGED <<rxctrl, stop_pc, hw_rxcr1, hw_rxstop, req_log, n_stop, filt_log, discarded>>
  /\ UNCHANGED <<xmitVars, txwVars, irqVars, rxVars, devVars, histVars>>
  /\ UNCHANGED <<probeVars, ghostVars, hdrVars, lenVars>>

(* ks8851_wrreg16(ks, KS_RXCR1, 0x00) and mutex_unlock: the receiver is *)
(* told to stop, and reports it by RXPSI once it has.                   *)
ks8851_rxctrl_work_write ==
  /\ rxctrl_pc = "locked"
  /\ hw_rxcr1' = {}
  /\ hw_rxstop' = TRUE
  /\ lock' = "free"
  /\ rxctrl_pc' = "idle"
  /\ UNCHANGED <<tx_space, txq, fid, rc_ier, running, queue_stopped, tx_pending, statelock>>
  /\ UNCHANGED <<rxctrl, rxctrl_pending, stop_pc, req_log, n_stop, filt_log, discarded>>
  /\ UNCHANGED <<xmitVars, txwVars, irqVars, rxVars, devVars, histVars>>
  /\ UNCHANGED <<probeVars, ghostVars, hdrVars, lenVars>>

(* The device: the receive process has stopped. *)
hw_rx_stopped ==
  /\ hw_rxstop
  /\ hw_rxstop' = FALSE
  /\ isr' = isr \cup {"RXPSI"}
  /\ UNCHANGED <<rxctrl, rxctrl_pending, rxctrl_pc, stop_pc, hw_rxcr1, req_log, n_stop, filt_log, discarded>>
  /\ UNCHANGED <<drvVars, xmitVars, txwVars, irqVars, rxVars, histVars>>
  /\ UNCHANGED <<hw_txq, hw_rxq, hw_rxfc, dma>>
  /\ UNCHANGED <<probeVars, ghostVars, hdrVars, lenVars>>

(* ------------------------------------------------------------------ *)
(* ks8851_net_stop                                                     *)
(* ------------------------------------------------------------------ *)
(* flush_work returns once the work item is neither queued nor running. *)
flush_work_no_wait(pending, pc) == TRUE

flush_work(pending, pc) == ~pending /\ pc = "idle"

(* The stack closes the device; it makes no send and no filter request  *)
(* from here until the device is opened again.  netif_stop_queue, then  *)
(* under the bus lock the interrupts are disabled and acknowledged.     *)
ks8851_net_stop_irqoff ==
  /\ running /\ stop_pc = "idle"
  /\ xmit_pc = "idle"
  /\ n_stop < MaxStops
  /\ mutex_lock(lock)
  /\ running' = FALSE
  /\ queue_stopped' = TRUE
  /\ lock' = "stop"
  /\ rc_ier' = {}
  /\ isr' = {}
  /\ stop_pc' = "irqoff"
  /\ UNCHANGED <<tx_space, txq, fid, tx_pending, statelock>>
  /\ UNCHANGED <<rxctrl, rxctrl_pending, rxctrl_pc, hw_rxcr1, hw_rxstop, req_log, n_stop, filt_log, discarded>>
  /\ UNCHANGED <<xmitVars, txwVars, irqVars, rxVars, histVars>>
  /\ UNCHANGED <<hw_txq, hw_rxq, hw_rxfc, dma>>
  /\ UNCHANGED <<probeVars, ghostVars, hdrVars, lenVars>>

ks8851_net_stop_unlock ==
  /\ stop_pc = "irqoff"
  /\ lock' = "free"
  /\ stop_pc' = "flush_tx"
  /\ UNCHANGED <<tx_space, txq, fid, rc_ier, running, queue_stopped, tx_pending, statelock>>
  /\ UNCHANGED <<rxctrl, rxctrl_pending, rxctrl_pc, hw_rxcr1, hw_rxstop, req_log, n_stop, filt_log, discarded>>
  /\ UNCHANGED <<xmitVars, txwVars, irqVars, rxVars, devVars, histVars>>
  /\ UNCHANGED <<probeVars, ghostVars, hdrVars, lenVars>>

(* flush_work(&ks->tx_work) *)
ks8851_net_stop_flush_tx ==
  /\ stop_pc = "flush_tx"
  /\ flush_work(tx_pending, tx_pc)
  /\ stop_pc' = "flush_rxctrl"
  /\ UNCHANGED <<rxctrl, rxctrl_pending, rxctrl_pc, hw_rxcr1, hw_rxstop, req_log, n_stop, filt_log, discarded>>
  /\ UNCHANGED <<drvVars, xmitVars, txwVars, irqVars, rxVars, devVars, histVars>>
  /\ UNCHANGED <<probeVars, ghostVars, hdrVars, lenVars>>

(* flush_work(&ks->rxctrl_work) *)
ks8851_net_stop_flush_rxctrl ==
  /\ stop_pc = "flush_rxctrl"
  /\ flush_work(rxctrl_pending, rxctrl_pc)
  /\ stop_pc' = "shutdown"
  /\ UNCHANGED <<rxctrl, rxctrl_pending, rxctrl_pc, hw_rxcr1, hw_rxstop, req_log, n_stop, filt_log, discarded>>
  /\ UNCHANGED <<drvVars, xmitVars, txwVars, irqVars, rxVars, devVars, histVars>>
  /\ UNCHANGED <<probeVars, ghostVars, hdrVars, lenVars>>

(* Under the bus lock: receive and transmit processes off, soft power   *)
(* down.                                                                *)
ks8851_net_stop_shutdown ==
  /\ stop_pc = "shutdown"
  /\ mutex_lock(lock)
  /\ lock' = "stop"
  /\ hw_rxcr1' = {}
  /\ hw_rxstop' = FALSE
  /\ stop_pc' = "drain"
  /\ UNCHANGED <<tx_space, txq, fid, rc_ier, running, queue_stopped, tx_pending, statelock>>
  /\ UNCHANGED <<rxctrl, rxctrl_pending, rxctrl_pc, req_log, n_stop, filt_log, discarded>>
  /\ UNCHANGED <<xmitVars, txwVars, irqVars, rxVars, devVars, histVars>>
  /\ UNCHANGED <<probeVars, ghostVars, hdrVars, lenVars>>

(* mutex_unlock, then while (!skb_queue_empty(&ks->txq)) the queued     *)
(* frames are dequeued and freed; return 0.                             *)
ks8851_net_stop_drain ==
  /\ stop_pc = "drain"
  /\ lock' = "free"
  /\ discarded' = discarded \cup {txq[i].seq : i \in 1..Len(txq)}
  /\ txq' = << >>
  /\ n_stop' = n_stop + 1
  /\ stop_pc' = "idle"
  /\ UNCHANGED <<tx_space, fid, rc_ier, running, queue_stopped, tx_pending, statelock>>
  /\ UNCHANGED <<rxctrl, rxctrl_pending, rxctrl_pc, hw_rxcr1, hw_rxstop, req_log, filt_log>>
  /\ UNCHANGED <<xmitVars, txwVars, irqVars, rxVars, devVars, histVars>>
  /\ UNCHANGED <<probeVars, ghostVars, hdrVars, lenVars>>

(* ------------------------------------------------------------------ *)
(* ks8851_probe                                                        *)
(* ------------------------------------------------------------------ *)
CIDER_READ_MAX_ITER == 20

(* (cider & ~CIDER_REV_MASK) == CIDER_ID *)
cider_matches(c) == c \in {"id_rev0", "id_rev1"}

(* ks8851_soft_reset(ks, GRR_GSR): two register writes, made without    *)
(* the bus lock; iter = 0.                                              *)
ks8851_probe_reset ==
  /\ probe_pc = "reset"
  /\ probe_pc' = "cider"
  /\ iter' = 0
  /\ UNCHANGED <<cider, n_reads, registered>>
  /\ UNCHANGED <<drvVars, xmitVars, txwVars, irqVars, rxVars, devVars, histVars>>
  /\ UNCHANGED <<ctlVars, ghostVars, hdrVars, lenVars>>

(* The loop test: iter <= CIDER_READ_MAX_ITER. *)
cider_loop_lt(i) == i < CIDER_READ_MAX_ITER

cider_loop(i) == i <= CIDER_READ_MAX_ITER

(* One iteration of the poll: read KS_CIDER (without the bus lock);     *)
(* break on a match, else msleep and iter++.                            *)
ks8851_probe_cider ==
  /\ probe_pc = "cider"
  /\ cider_loop(iter)
  /\ \E c \in CiderVals :
       /\ cider' = c
       /\ n_reads' = n_reads + 1
       /\ IF cider_matches(c)
            THEN probe_pc' = "check" /\ iter' = iter
            ELSE probe_pc' = "cider" /\ iter' = iter + 1
  /\ UNCHANGED registered
  /\ UNCHANGED <<drvVars, xmitVars, txwVars, irqVars, rxVars, devVars, histVars>>
  /\ UNCHANGED <<ctlVars, ghostVars, hdrVars, lenVars>>

(* The loop ends without a break. *)
ks8851_probe_cider_end ==
  /\ probe_pc = "cider"
  /\ ~cider_loop(iter)
  /\ probe_pc' = "check"
  /\ UNCHANGED <<iter, cider, n_reads, registered>>
  /\ UNCHANGED <<drvVars, xmitVars, txwVars, irqVars, rxVars, devVars, histVars>>
  /\ UNCHANGED <<ctlVars, ghostVars, hdrVars, lenVars>>

(* if ((cider & ~CIDER_REV_MASK) != CIDER_ID) { ret = -ENODEV; goto     *)
(* err_id; } else the CCR read and the self-test read follow, still     *)
(* without the bus lock.                                                *)
ks8851_probe_check ==
  /\ probe_pc = "check"
  /\ probe_pc' = IF cider_matches(cider) THEN "setup" ELSE "failed"
  /\ UNCHANGED <<iter, cider, n_reads, registered>>
  /\ UNCHANGED <<drvVars, xmitVars, txwVars, irqVars, rxVars, devVars, histVars>>
  /\ UNCHANGED <<ctlVars, ghostVars, hdrVars, lenVars>>

(* ks8851_init_mac (which takes the bus lock itself),                   *)
(* request_threaded_irq and register_netdev, either of which may fail;  *)
(* return.  The locals are gone.                                        *)
ks8851_probe_register ==
  /\ probe_pc = "setup"
  /\ \E ok \in BOOLEAN :
       /\ registered' = ok
       /\ probe_pc' = IF ok THEN "done" ELSE "failed"
  /\ iter' = 0 /\ cider' = "none" /\ n_reads' = 0
  /\ UNCHANGED <<drvVars, xmitVars, txwVars, irqVars, rxVars, devVars, histVars>>
  /\ UNCHANGED <<ctlVars, ghostVars, hdrVars, lenVars>>

(* ------------------------------------------------------------------ *)
(* The device from attach to stop (the link does not change)           *)
(* ------------------------------------------------------------------ *)
(* ks8851_probe is entered with the private data zeroed but for         *)
(* tx_space; of the sends the stack may make, MaxDevSends are left.     *)
InitAttach ==
  /\ tx_space = KSZ8851_TX_SPACE /\ txq = << >> /\ fid = 0
  /\ rc_ier = {} /\ running = FALSE /\ queue_stopped = TRUE
  /\ tx_pending = FALSE /\ lock = "free" /\ statelock = "free"
  /\ xmit_pc = "idle" /\ xmit_skb = NoSkb /\ xmit_seen = 0 /\ xmit_ret = "none"
  /\ tx_pc = "idle" /\ tx_last = TRUE /\ tx_len = 0 /\ tx_buf = << >>
  /\ irq_pc = "idle" /\ status = {} /\ handled = {}
  /\ rx_pc = "idle" /\ rxfc = 0 /\ rxfct = 0 /\ rxfifosize = 0 /\ totallen = 0
  /\ index32 = 0 /\ buf32 = "NULL" /\ rx_bufs = {}
  /\ isr = {} /\ hw_txq = << >> /\ hw_rxq = << >> /\ hw_rxfc = 0 /\ dma = FALSE
  /\ n_sent = MaxSends - MaxDevSends /\ n_rx = 0 /\ n_glitch = 0 /\ n_raise = 0
  /\ wr_log = << >> /\ last_report = KSZ8851_TX_SPACE /\ unacked = 0
  /\ irq_log = << >> /\ irq_acks = << >> /\ rx_log = << >> /\ rx_iter = << >> /\ delivered = << >>
  /\ probe_pc = "reset" /\ registered = FALSE
  /\ InitRest
  /\ HdrIdle
  /\ LenIdle

NextDev ==
  \/ ks8851_probe_reset
  \/ ks8851_probe_cider
  \/ ks8851_probe_cider_end
  \/ ks8851_probe_check
  \/ ks8851_probe_register
  \/ ks8851_net_open
  \/ ks8851_start_xmit_check
  \/ ks8851_start_xmit_stop
  \/ ks8851_start_xmit_store
  \/ ks8851_start_xmit_unlock
  \/ ks8851_tx_work_lock
  \/ ks8851_wrpkts3_begin
  \/ ks8851_wrpkts3_fill
  \/ ks8851_wrpkts3_write
  \/ ks8851_tx_work_check
  \/ ks8851_tx_work_unlock
  \/ hw_tx_done
  \/ ks8851_irq_enter
  \/ ks8851_irq_bits
  \/ ks8851_irq_ack
  \/ ks8851_irq_rxpsi
  \/ ks8851_irq_rxpsi_cr
  \/ ks8851_irq_exit
  \/ ks8851_set_rx_mode
  \/ ks8851_rxctrl_work_lock
  \/ ks8851_rxctrl_work_write
  \/ hw_rx_stopped
  \/ ks8851_net_stop_irqoff
  \/ ks8851_net_stop_unlock
  \/ ks8851_net_stop_flush_tx
  \/ ks8851_net_stop_flush_rxctrl
  \/ ks8851_net_stop_shutdown
  \/ ks8851_net_stop_drain

SpecDev == InitAttach /\ [][NextDev]_vars

(* ------------------------------------------------------------------ *)
(* The transmit header on its own                                      *)
(* ------------------------------------------------------------------ *)
(* Lengths of the 16-bit length field, the byte boundaries among them. *)
HdrLens == {0, 1, 60, 255, 256, 1500, 6996, 32767, 32768, 65535}

(* Any value of the u8 frame-id counter, a length and a flag. *)
InitHdr ==
  /\ tx_space = KSZ8851_TX_SPACE /\ txq = << >> /\ fid = 0
  /\ rc_ier = {} /\ running = FALSE /\ queue_stopped = TRUE
  /\ tx_pending = FALSE /\ lock = "free" /\ statelock = "free"
  /\ xmit_pc = "idle" /\ xmit_skb = NoSkb /\ xmit_seen = 0 /\ xmit_ret = "none"
  /\ tx_pc = "idle" /\ tx_last = TRUE /\ tx_len = 0 /\ tx_buf = << >>
  /\ irq_pc = "idle" /\ status = {} /\ handled = {}
  /\ rx_pc = "idle" /\ rxfc = 0 /\ rxfct = 0 /\ rxfifosize = 0 /\ totallen = 0
  /\ index32 = 0 /\ buf32 = "NULL" /\ rx_bufs = {}
  /\ isr = {} /\ hw_txq = << >> /\ hw_rxq = << >> /\ hw_rxfc = 0 /\ dma = FALSE
  /\ n_sent = 0 /\ n_rx = 0 /\ n_glitch = 0 /\ n_raise = 0
  /\ wr_log = << >> /\ last_report = KSZ8851_TX_SPACE /\ unacked = 0
  /\ irq_log = << >> /\ irq_acks = << >> /\ rx_log = << >> /\ rx_iter = << >> /\ delivered = << >>
  /\ probe_pc = "done" /\ registered = TRUE
  /\ InitRest
  /\ hdr_pc = "encode"
  /\ hdr_fid \in 0..(U8 - 1)
  /\ hdr_len \in HdrLens
  /\ hdr_ic \in BOOLEAN
  /\ hdr_word = << >>
  /\ LenIdle

(* The header word is built and goes over the bus. *)
tx_hdr_encode ==
  /\ hdr_pc = "encode"
  /\ hdr_word' = spi_word32_wire(tx_hdr_word(hdr_fid, hdr_len, hdr_ic))
  /\ hdr_pc' = "sent"
  /\ UNCHANGED <<hdr_fid, hdr_len, hdr_ic>>
  /\ UNCHANGED lenVars
  /\ UNCHANGED <<drvVars, xmitVars, txwVars, irqVars, rxVars, devVars, histVars>>
  /\ UNCHANGED <<probeVars, ctlVars, ghostVars>>

NextHdr ==
  \/ tx_hdr_encode

SpecHdr == InitHdr /\ [][NextHdr]_vars

(* ------------------------------------------------------------------ *)
(* ks8851_rdfifolen on its own                                         *)
(* ------------------------------------------------------------------ *)
(* The most frames one probe is looked at for. *)
MaxProbe == 4

(* Byte counts the device may answer with: none, odd, a multiple of 4,  *)
(* the largest 12-bit values, and values with bits above the 12 the     *)
(* driver keeps (0x103c, 0xffff).                                       *)
ProbeLens == {0, 1, 100, 4092, 4095, 4156, 65535}

ProbeWords == {hw_rxfhbcr_word(l) : l \in ProbeLens}

(* Any answer of the device to a probe of 1..MaxProbe frames. *)
InitLen ==
  /\ tx_space = KSZ8851_TX_SPACE /\ txq = << >> /\ fid = 0
  /\ rc_ier = {} /\ running = FALSE /\ queue_stopped = TRUE
  /\ tx_pending = FALSE /\ lock = "free" /\ statelock = "free"
  /\ xmit_pc = "idle" /\ xmit_skb = NoSkb /\ xmit_seen = 0 /\ xmit_ret = "none"
  /\ tx_pc = "idle" /\ tx_last = TRUE /\ tx_len = 0 /\ tx_buf = << >>
  /\ irq_pc = "idle" /\ status = {} /\ handled = {}
  /\ rx_pc = "idle" /\ rxfc = 0 /\ rxfct = 0 /\ rxfifosize = 0 /\ totallen = 0
  /\ index32 = 0 /\ buf32 = "NULL" /\ rx_bufs = {}
  /\ isr = {} /\ hw_txq = << >> /\ hw_rxq = << >> /\ hw_rxfc = 0 /\ dma = FALSE
  /\ n_sent = 0 /\ n_rx = 0 /\ n_glitch = 0 /\ n_raise = 0
  /\ wr_log = << >> /\ last_report = KSZ8851_TX_SPACE /\ unacked = 0
  /\ irq_log = << >> /\ irq_acks = << >> /\ rx_log = << >> /\ rx_iter = << >> /\ delivered = << >>
  /\ probe_pc = "done" /\ registered = TRUE
  /\ InitRest
  /\ HdrIdle
  /\ len_pc = "probe"
  /\ len_rxd \in UNION {[1..n -> ProbeWords] : n \in 1..MaxProbe}
  /\ len_size = 0

(* The words read back are accumulated into the estimate. *)
ks8851_rdfifolen_estimate ==
  /\ len_pc = "probe"
  /\ len_size' = rdfifolen_size(len_rxd)
  /\ len_pc' = "done"
  /\ UNCHANGED len_rxd
  /\ UNCHANGED <<drvVars, xmitVars, txwVars, irqVars, rxVars, devVars, histVars>>
  /\ UNCHANGED <<probeVars, ctlVars, ghostVars, hdrVars>>

NextLen ==
  \/ ks8851_rdfifolen_estimate

SpecLen == InitLen /\ [][NextLen]_vars

(* ------------------------------------------------------------------ *)
(* Properties                                                          *)
(* ------------------------------------------------------------------ *)
RECURSIVE Flatten(_)
Flatten(ss) == IF ss = << >> THEN << >> ELSE Head(ss) \o Flatten(Tail(ss))

SeqIds(q) == [i \in 1..Len(q) |-> q[i].seq]

CountOp(log, op) == Cardinality({i \in 1..Len(log) : log[i].op = op})

CountEv(log, ev) == Cardinality({i \in 1..Len(log) : log[i] = ev})

StrictlyIncreasing(w) == \A i, j \in 1..Len(w) : i < j => w[i] < w[j]

NETDEV_TX_BUSY == "NETDEV_TX_BUSY"

NETDEV_TX_OK == "NETDEV_TX_OK"

(* C1: at every moment the space budget plus the reserved size of every  *)
(* frame accepted and not yet acknowledged by a transmit-done interrupt  *)
(* (still queued, being packed, or written to the device) is at most the *)
(* free space the device last reported, the initial budget before any    *)
(* report.                                                               *)
C1_BudgetWithinLastReport ==
  tx_space + SumNeeded(txq) + SumNeeded(tx_buf) + unacked <= last_report

(* What C2 says of one step of ks8851_start_xmit. *)
C2_BusyStep ==
  /\ (xmit_pc = "idle" /\ xmit_pc' # "idle")
       => ((calc_txlen(xmit_skb'.len) > tx_space) <=> (xmit_ret' = NETDEV_TX_BUSY))
  /\ (xmit_pc = "idle" /\ xmit_pc' # "idle" /\ calc_txlen(xmit_skb'.len) > tx_space)
       => /\ xmit_pc' = "stop"
          /\ tx_space' = tx_space
          /\ txq' = txq
  /\ (xmit_pc = "stop" /\ xmit_pc' # "stop")
       => /\ xmit_ret = NETDEV_TX_BUSY
          /\ xmit_pc' = "unlock"
          /\ queue_stopped'
          /\ tx_space' = tx_space
          /\ txq' = txq
  /\ (xmit_pc = "unlock" /\ xmit_ret = NETDEV_TX_BUSY /\ xmit_pc' # xmit_pc)
       => /\ xmit_pc' = "idle"
          /\ tx_space' = tx_space
          /\ txq' = txq

(* C2: a send request whose needed size exceeds the space budget returns *)
(* busy, stops the upstream queue, and neither its comparison step nor   *)
(* its return changes the budget or the transmit queue; busy is returned *)
(* for no other request.                                                 *)
C2_BusyRefused == [][C2_BusyStep]_vars

(* The 7000-byte request (a 6996-byte frame) against a budget of 6144. *)
C2_Witness ==
  /\ xmit_pc = "unlock"
  /\ xmit_ret = NETDEV_TX_BUSY
  /\ calc_txlen(xmit_skb.len) = 7000
  /\ xmit_seen = 6144
  /\ tx_space = 6144
  /\ queue_stopped

(* What C3 says of one step of ks8851_start_xmit. *)
C3_AcceptStep ==
  /\ (xmit_pc = "idle" /\ xmit_pc' # "idle" /\ calc_txlen(xmit_skb'.len) <= tx_space)
       => /\ xmit_ret' = NETDEV_TX_OK
          /\ xmit_pc' = "store"
  /\ (xmit_pc = "store" /\ xmit_pc' # "store")
       => /\ xmit_ret = NETDEV_TX_OK
          /\ txq' = Append(txq, xmit_skb)
          /\ \/ tx_space' = xmit_seen - (4 + ALIGN(xmit_skb.len, 4))
             \/ tx_space' = tx_space - (4 + ALIGN(xmit_skb.len, 4))
          /\ xmit_pc' = "unlock"

(* C3: a send request whose needed size is at most the space budget is   *)
(* accepted, lowers the budget by exactly needed (counted from the value *)
(* it compared or from the value the budget holds when it subtracts) and *)
(* appends the frame at the tail of the transmit queue.                  *)
C3_AcceptedLowersByNeeded == [][C3_AcceptStep]_vars

(* With no interrupt between them, frames of 60, 1500 and 64 bytes       *)
(* accepted from a budget of 6144 leave 6144 - 1636 = 4508.              *)
ScenarioA_ThreeAccepted ==
  ( /\ [i \in 1..Len(txq) |-> txq[i].len] = <<60, 1500, 64>>
    /\ last_report = 6144
    /\ irq_log = << >>
    /\ wr_log = << >> /\ tx_buf = << >>
    /\ xmit_pc # "store" )
  => tx_space = 6144 - 1636

(* C4: frames reach the device in the order their send requests were     *)
(* accepted: the frames written so far, bulk write after bulk write and  *)
(* in the order packed inside each, followed by the frames being packed  *)
(* and then by the frames still queued, are in increasing order of       *)
(* request.                                                              *)
C4_FifoOrder ==
  StrictlyIncreasing(Flatten(wr_log) \o SeqIds(tx_buf) \o SeqIds(txq))

C4_Witness ==
  /\ Len(wr_log) >= 2
  /\ \E i \in 1..Len(wr_log) : Len(wr_log[i]) >= 2
  /\ Len(Flatten(wr_log)) = 3

(* The receive attempt of C5: the count read is 2 and the device held,   *)
(* consistently, a frame of byte count 100 and then one of 3000.         *)
C5_Case ==
  /\ rx_pc = "ack"
  /\ n_glitch = 0
  /\ rxfct = 2
  /\ Len(hw_rxq) >= 2
  /\ hw_rxq[1] = [env |-> 100, bc |-> 100]
  /\ hw_rxq[2] = [env |-> 3000, bc |-> 3000]

(* C5 (as amended): with a frame count of 2 and byte counts 100 and 3000 *)
(* the size estimate is 3112 = (100+4) + (3000+4) + 4, and the decode    *)
(* loop hands up exactly two frames in FIFO order, of 96 and 2996 bytes  *)
(* (ALIGN(length - 4, 4)), the byte counter growing by 100 and 3000.     *)
C5_TwoFrames ==
  C5_Case =>
    /\ rxfifosize = 3112
    /\ delivered = <<[len |-> 96, rxlen |-> 100], [len |-> 2996, rxlen |-> 3000]>>
    /\ CountOp(rx_log, "recovery") = 0

C5_Witness ==
  /\ C5_Case
  /\ Len(delivered) = 2

(* C5 (as stated): with a frame count of 2 and frame lengths 100 and     *)
(* 3000 the size estimate is 3104 and the two frames are delivered with  *)
(* lengths 100 and 3000.                                                 *)
C5_AsStated ==
  C5_Case =>
    /\ rxfifosize = 3104
    /\ [i \in 1..Len(delivered) |-> delivered[i].len] = <<100, 3000>>

(* C6: a receive attempt makes at most one primary bulk read and at most *)
(* one recovery read, runs the decode loop at most once per counted      *)
(* frame and hands up at most that many frames; while the loop runs, the *)
(* frames decoded and the frames left add up to the count, so the loop   *)
(* ends.                                                                 *)
C6_BoundedAttempt ==
  /\ CountOp(rx_log, "bulk") <= 1
  /\ CountOp(rx_log, "recovery") <= 1
  /\ Len(rx_iter) <= rxfct
  /\ Len(delivered) <= Len(rx_iter)
  /\ rx_pc = "loop" => (rxfc > 0 /\ Len(rx_iter) + rxfc = rxfct)
  /\ CountOp(rx_log, "recovery") = 1 => rx_pc \in {"ack", "idle"}

C6_Witness ==
  /\ rx_pc = "ack"
  /\ rxfct = 3
  /\ rxfc = 2
  /\ CountOp(rx_log, "bulk") = 1
  /\ CountOp(rx_log, "recovery") = 1
  /\ Len(delivered) = 2

(* A receive attempt has returned to the interrupt handler. *)
RxAttemptOver == rx_pc = "idle" /\ rx_log # << >>

(* C7 (as amended): a receive attempt issues at most one size-probe bus  *)
(* exchange: none when the frame count read is 0 or the probe's buffers  *)
(* cannot be allocated, otherwise exactly one, a chain of as many        *)
(* transfers as the count.                                               *)
C7_OneProbe ==
  /\ CountOp(rx_log, "probe") <= 1
  /\ \A i \in 1..Len(rx_log) : rx_log[i].op = "probe" => (i = 2 /\ rx_log[i].n = rxfct)
  /\ RxAttemptOver =>
       IF rxfct = 0 \/ (Len(rx_log) >= 2 /\ rx_log[2].op = "enomem")
         THEN CountOp(rx_log, "probe") = 0
         ELSE CountOp(rx_log, "probe") = 1

C7_Witness ==
  /\ RxAttemptOver
  /\ rxfct = 3
  /\ CountOp(rx_log, "probe") = 1
  /\ Last(rx_log).op = "ack"

(* C7 (as stated): whatever the frame count, zero included, a receive    *)
(* attempt issues exactly one size-probe bus exchange, never zero (here  *)
(* for the attempts in which no allocation failed).                      *)
C7_AsStated ==
  (RxAttemptOver /\ CountOp(rx_log, "enomem") = 0)
    => CountOp(rx_log, "probe") = 1

(* The bytes of the i-th decoded frame, as handed up, that lie past the  *)
(* end of the primary buffer.                                            *)
C8_Shortfall(i) == rx_iter[i].at + 4 + rx_skb_len(rx_iter[i].rxlen) - rxfifosize

(* C8: when the primary bulk read is shorter than the frame being        *)
(* decoded (the frame handed up ends past the fetched bytes), the fetch  *)
(* was not capped and memory is available, exactly one recovery read of  *)
(* size equal to the shortfall (with or without the frame's CRC) is      *)
(* made, the frame is delivered and the loop stops there.                *)

C8_RecoverySizedToShortfall ==
  \A i \in 1..Len(rx_iter) :
    ( /\ C8_Shortfall(i) > 0
      /\ ~rx_capped(rxfifosize)
      /\ CountOp(rx_log, "enomem") = 0 )
    => /\ i = Len(rx_iter)
       /\ rx_pc \in {"ack", "idle"}
       /\ Len(delivered) = i
       /\ CountOp(rx_log, "recovery") = 1
       /\ \A k \in 1..Len(rx_log) :
            rx_log[k].op = "recovery"
              => rx_log[k].n \in {C8_Shortfall(i), rx_iter[i].ends - rxfifosize}

(* C9: every receive attempt, however its decode loop ended and whatever *)
(* the frame count was, ends by writing the RX-FIFO dequeue              *)
(* acknowledgment to the device.                                         *)
C9_AlwaysAcknowledged ==
  RxAttemptOver => Last(rx_log).op = "ack"

(* C10: one run of the interrupt handler writes the interrupt status     *)
(* back exactly once, the write carries exactly the bits the handler     *)
(* marked handled (the link-change, link-down, RXPSI, transmit-done,     *)
(* receive-done and bus-error bits of the status read), and it comes     *)
(* before the receive pipeline, the filter update and the link check.    *)
C10_AckOnceBeforeRx ==
  /\ Len(irq_acks) <= 1
  /\ CountEv(irq_log, "ack") = Len(irq_acks)
  /\ (irq_pc \in {"rx", "rxpsi", "rxpsi_cr", "exit", "link"} \/ (irq_pc = "idle" /\ irq_log # << >>))
       => /\ Len(irq_acks) = 1
          /\ irq_acks[1] = handled
          /\ handled = status \cap {"LCI", "LDI", "RXPSI", "TXI", "RXI", "SPIBEI"}
  /\ \A i \in 1..Len(irq_log) :
       irq_log[i] \in {"rx", "filter", "link"}
         => \E j \in 1..(i - 1) : irq_log[j] = "ack"

C10_Witness ==
  /\ irq_pc = "idle"
  /\ status = {"LCI", "RXI", "RXOI"}
  /\ irq_acks = <<{"LCI", "RXI"}>>
  /\ CountEv(irq_log, "rx") = 1
  /\ CountEv(irq_log, "link") = 1

(* The contexts that are in the middle of bus exchanges: the transmit   *)
(* work unit, the interrupt handler before its unlock, the filter work  *)
(* unit, device stop in either of its two register sequences, and the   *)
(* probe from its reset to its last register read.                      *)
BusUsers ==
  (IF tx_pc # "idle" THEN {"tx"} ELSE {}) \cup
  (IF irq_pc \in {"bits", "ack", "rx", "rxpsi", "rxpsi_cr", "exit"} THEN {"irq"} ELSE {}) \cup
  (IF rxctrl_pc = "locked" THEN {"rxctrl"} ELSE {}) \cup
  (IF stop_pc \in {"irqoff", "drain"} THEN {"stop"} ELSE {}) \cup
  (IF probe_pc \in {"cider", "check", "setup"} THEN {"probe"} ELSE {})

(* C11 as stated: at most one context is on the bus and every context   *)
(* on the bus holds the bus lock.                                       *)
C11_AsStated ==
  /\ Cardinality(BusUsers) <= 1
  /\ \A c \in BusUsers : lock = c

(* C11: at most one context at a time is inside a bus exchange; the     *)
(* transmit and filter work units, the interrupt handler and device     *)
(* stop hold the bus lock for their exchanges and a work unit that has  *)
(* returned does not hold it; the probe makes its exchanges without the *)
(* lock, before the interrupt handler and the network device are        *)
(* registered.                                                          *)
C11_OneBusUser ==
  /\ Cardinality(BusUsers) <= 1
  /\ \A c \in BusUsers \ {"probe"} : lock = c
  /\ lock \in BusUsers \cup {"free"}
  /\ "probe" \in BusUsers => lock = "free" /\ ~registered

C11_Witness ==
  /\ lock = "tx" /\ tx_pc = "fill"
  /\ rxctrl_pending
  /\ (isr \cap rc_ier) # {}

(* A step of a send request: from the call to the return it goes        *)
(* through the comparison, the store and the unlock, and it changes     *)
(* neither the bus lock nor anything of the device.                     *)
C12_SendStep ==
  xmit_pc' # xmit_pc =>
    /\ lock' = lock
    /\ devVars' = devVars
    /\ <<xmit_pc, xmit_pc'>> \in {<<"idle", "store">>, <<"idle", "stop">>,
                                  <<"stop", "unlock">>,
                                  <<"store", "unlock">>, <<"unlock", "idle">>}

(* Whoever holds the bus lock, a send request can be made when the      *)
(* queue is awake and the state lock is free, and a request under way   *)
(* can take its next step.                                              *)
C12_SendNeverWaitsForBus ==
  /\ (running /\ ~queue_stopped /\ xmit_pc = "idle" /\ n_sent < MaxSends /\ statelock = "free")
       => ENABLED ks8851_start_xmit_check
  /\ xmit_pc = "stop" => ENABLED ks8851_start_xmit_stop
  /\ xmit_pc = "store" => ENABLED ks8851_start_xmit_store
  /\ xmit_pc = "unlock" => ENABLED ks8851_start_xmit_unlock
  /\ xmit_pc # "idle" => statelock = "xmit"

(* C12: a send request never takes the bus lock and makes no bus        *)
(* exchange; it returns accepted or busy after the comparison, the      *)
(* store and the unlock under the state lock, none of which waits for   *)
(* the bus lock, also while the transmit work unit holds the bus lock   *)
(* for a bulk transfer.                                                 *)
C12_SendOffTheBus == [][C12_SendStep]_vars /\ []C12_SendNeverWaitsForBus

C12_Witness ==
  /\ lock = "tx" /\ tx_pc = "fill" /\ tx_buf # << >>
  /\ xmit_pc = "unlock" /\ xmit_ret = NETDEV_TX_OK
  /\ xmit_seen = tx_space + calc_txlen(xmit_skb.len)

(* The requests whose computed settings differed from the ones computed *)
(* by the request before (from the zeroed settings for the first).      *)
ChangingRequests(log) ==
  {i \in 1..Len(log) : log[i] # (IF i = 1 THEN NoRxctrl ELSE log[i - 1])}

(* Nothing of a filter change is under way: no work queued or running,  *)
(* the receiver not stopping, no RXPSI raised or being served.          *)
FilterQuiet ==
  /\ ~rxctrl_pending /\ rxctrl_pc = "idle"
  /\ ~hw_rxstop /\ "RXPSI" \notin isr
  /\ irq_pc = "idle"

(* A filter-change request that computes the stored settings. *)
C13_EqualRequestStep ==
  (req_log' # req_log /\ Last(req_log') = rxctrl) =>
    /\ rxctrl' = rxctrl
    /\ rxctrl_pending' = rxctrl_pending
    /\ <<rxctrl_pc, hw_rxcr1, hw_rxstop, filt_log, devVars, lock>>' =
       <<rxctrl_pc, hw_rxcr1, hw_rxstop, filt_log, devVars, lock>>

C13_AppliesFollowChanges ==
  /\ Len(filt_log) <= Cardinality(ChangingRequests(req_log))
  /\ (Len(req_log) = 2 /\ req_log[1] = req_log[2] /\ FilterQuiet /\ n_stop = 0 /\ stop_pc = "idle")
       => filt_log = <<req_log[1]>>

(* C13: a filter-change request whose computed settings equal the       *)
(* stored ones stores nothing, schedules no work and writes nothing to  *)
(* the device; the settings are never applied more often than they      *)
(* changed, and after two identical requests in a row, once the device  *)
(* has settled, they have been applied exactly once.                    *)
C13_EqualRequestDoesNothing == [][C13_EqualRequestStep]_vars /\ []C13_AppliesFollowChanges

C13_Witness ==
  /\ Len(req_log) = 2 /\ req_log[1] = req_log[2]
  /\ FilterQuiet /\ n_stop = 0 /\ stop_pc = "idle"
  /\ filt_log = <<rx_mode_settings({"IFF_PROMISC"})>>
  /\ hw_rxcr1 = rx_mode_settings({"IFF_PROMISC"}).rxcr1

IsPrefix(a, b) == Len(a) <= Len(b) /\ \A i \in 1..Len(a) : a[i] = b[i]

(* A bulk write: the frames that were queued when its pass began, if    *)
(* they total less than the cap, are all in it, in their order.         *)
C14_WriteStep ==
  wr_log' # wr_log =>
    /\ Len(wr_log') = Len(wr_log) + 1
    /\ IsPrefix(tx_goal, Last(wr_log'))

(* No frame is in two bulk writes or twice in one. *)
C14_WrittenOnce ==
  LET w == Flatten(wr_log)
  IN \A i, j \in 1..Len(w) : w[i] = w[j] => i = j

StopReturned == n_stop > 0 /\ stop_pc = "idle" /\ ~running

(* The drain step discards what is queued. *)
C15_DrainStep ==
  (stop_pc = "drain" /\ stop_pc' = "idle") =>
    /\ txq' = << >>
    /\ \A i \in 1..Len(txq) : txq[i].seq \in discarded'

C15_StopOrder ==
  /\ stop_pc \in {"flush_rxctrl", "shutdown", "drain"} => ~tx_pending /\ tx_pc = "idle"
  /\ stop_pc \in {"shutdown", "drain"} => ~rxctrl_pending /\ rxctrl_pc = "idle"
  /\ StopReturned => txq = << >> /\ ~tx_pending /\ ~rxctrl_pending
  /\ \A i \in 1..Len(Flatten(wr_log)) : Flatten(wr_log)[i] \notin discarded

(* C15: device stop passes its flush of the transmit work only with     *)
(* that work neither queued nor running, then the same for the filter   *)
(* work, and only then shuts the device down and drains the transmit    *)
(* queue; when it has returned the queue is empty, and a frame it       *)
(* discarded was never written to the device.                           *)
C15_StopFlushesThenDrains == [][C15_DrainStep]_vars /\ []C15_StopOrder

(* Stop is waiting in its first flush while the transmit work unit is   *)
(* packing a frame and filter work is queued behind it.                 *)
C15_Witness ==
  /\ stop_pc = "flush_tx"
  /\ tx_pc = "fill" /\ tx_buf # << >>
  /\ rxctrl_pending

(* C16: the header built from frame id X, length L and the completion   *)
(* flag, read back from the bus the way the device reads it, gives      *)
(* X mod the width of the id field, L and the flag, for every X of the  *)
(* frame-id counter and every 16-bit L.                                 *)
C16_HeaderRoundTrip ==
  hdr_pc = "sent" =>
    hw_tx_hdr_decode(hdr_word) =
      [fid |-> hdr_fid % (TXFR_TXFID_MASK + 1), txic |-> hdr_ic, len |-> hdr_len]

C16_Witness ==
  /\ hdr_pc = "sent"
  /\ hdr_fid = 255 /\ hdr_len = 1500 /\ hdr_ic
  /\ hdr_word = <<255, 128, 220, 5>>

(* C17: when the allocation of the bulk transmit buffer fails, the      *)
(* failed pass leaves the transmit queue and tx_space as they were, and *)
(* the transmit work unit ends the attempt: what it does next is to     *)
(* release the bus lock and return.                                     *)
C17_AllocFailureStep ==
  /\ (tx_pc = "wrpkts" /\ tx_pc' = "enomem") => txq' = txq /\ tx_space' = tx_space
  /\ (tx_pc = "enomem" /\ tx_pc' # "enomem") => tx_pc' = "unlock"

C17_AllocFailureEndsAttempt == [][C17_AllocFailureStep]_vars

(* C18: during attach the chip-ID register is read at most              *)
(* CIDER_READ_MAX_ITER times, the polling goes on only while no read    *)
(* has matched, and the identity check fails the attach exactly when    *)
(* the last read did not match, with no network device registered.      *)
C18_BoundedIdPoll ==
  /\ n_reads <= CIDER_READ_MAX_ITER
  /\ (probe_pc = "cider" /\ n_reads > 0) => ~cider_matches(cider)
  /\ probe_pc = "setup" => cider_matches(cider)
  /\ (probe_pc = "failed" /\ n_reads > 0) => ~cider_matches(cider)
  /\ probe_pc = "failed" => ~registered

(* C19: when the read of the interrupt status fails, the handler goes   *)
(* on with a status of 0: it marks nothing handled, does none of the    *)
(* per-bit work, acknowledges no bit and reads the status once.         *)
C19_FailedReadIsStatusZero ==
  isr_failed =>
    /\ status = {}
    /\ handled = {}
    /\ \A i \in 1..Len(irq_log) : irq_log[i] \in {"isr_read", "ack", "unlock"}
    /\ \A i \in 1..Len(irq_acks) : irq_acks[i] = {}
    /\ CountEv(irq_log, "isr_read") = 1

(* C20: no buffer outlives the attempt that allocated it: outside a     *)
(* receive attempt none of its buffers is allocated, and outside a      *)
(* packing pass the bulk transmit buffer is not.                        *)
C20_NoBufferOutlivesAttempt ==
  /\ rx_pc = "idle" => rx_bufs = {}
  /\ tx_pc # "fill" => tx_buf = << >>

(* C21: in every iteration of the decode loop the envelope word read    *)
(* lies inside the primary buffer of rxfifosize bytes, and the words    *)
(* byte-swapped lie inside it too, or, for the frame completed by a     *)
(* recovery read, inside the recovery buffer of rxlen bytes.            *)
C21_DecodeInsideBuffer ==
  \A i \in 1..Len(rx_iter) :
    /\ rx_iter[i].at + 4 <= rxfifosize
    /\ ~rx_iter[i].short => rx_iter[i].ends <= rxfifosize
    /\ (rx_iter[i].short /\ ~rx_capped(rxfifosize))
         => ALIGN(rx_iter[i].rxlen, 4) <= rx_iter[i].rxlen

(* A transmit-done interrupt is still to come while one is pending in   *)
(* the device or being served, while a frame marked interrupt-on-       *)
(* completion is in the device, or while frames wait to be written.     *)
WakeComing ==
  \/ "TXI" \in isr
  \/ irq_pc = "bits" /\ "TXI" \in status
  \/ \E i \in 1..Len(hw_txq) : hw_txq[i]
  \/ tx_buf # << >>
  \/ txq # << >>

(* The producer has been paused by a busy result for a frame that the   *)
(* budget admits by now, and no transmit-done interrupt is to come.     *)
PausedForGood ==
  /\ running /\ queue_stopped
  /\ xmit_pc = "unlock" /\ xmit_ret = NETDEV_TX_BUSY
  /\ calc_txlen(xmit_skb.len) <= tx_space
  /\ ~WakeComing

(* C22: a producer paused by a busy result is eventually resumed; so a  *)
(* send request never pauses the producer at a moment when no           *)
(* transmit-done interrupt is to come.                                  *)
C22_PausedIsResumed == ~PausedForGood

(* Once paused with no interrupt to come, the producer stays paused.    *)
PausedForGoodStays ==
  [][(running /\ queue_stopped /\ xmit_pc # "store" /\ ~WakeComing)
       => (running' /\ queue_stopped' /\ xmit_pc' # "store" /\ ~WakeComing')]_vars

(* The packing loop is over and the buffer is about to be written. *)
BatchPacked == tx_pc = "fill" /\ ~wrpkts3_more(tx_last, tx_len) /\ tx_buf # << >>

(* C23: in every bulk write the final frame of the batch, and no other, *)
(* carries the interrupt-on-completion flag in the header that goes to  *)
(* the device, whether the batch ended on an empty queue or on the cap. *)
C23_FinalFrameFlagged ==
  BatchPacked =>
    \A i \in 1..Len(tx_buf) :
      hw_tx_hdr_decode(spi_word32_wire(tx_buf[i].hdr)).txic <=> (i = Len(tx_buf))

(* C24: every source enabled in the interrupt-enable mask that is set   *)
(* in the status read is among the bits of the acknowledgment write.    *)
C24_EnabledSourcesAcked ==
  irq_acks # << >> => (status \cap rc_ier) \subseteq irq_acks[1]

(* C25: whenever the bus lock is free the device's DMA-start bit is     *)
(* deasserted.                                                          *)
C25_DmaOffWhenLockFree == lock = "free" => ~dma

(* The applies that have written all six registers. *)
AppliesDone == IF irq_pc = "rxpsi_cr" THEN Len(filt_log) - 1 ELSE Len(filt_log)

(* C26: the hash buckets and the control words written in one apply all *)
(* come from the same filter-change request.                            *)
C26_ApplyFromOneRequest ==
  \A i \in 1..AppliesDone : \E j \in 1..Len(req_log) : filt_log[i] = req_log[j]

(* What C27 says of one step: a step that changes tx_space or the       *)
(* transmit queue is a step of the context that holds the state lock.   *)
C27_LockedStep ==
  (tx_space' # tx_space \/ txq' # txq) => (statelock = "xmit" /\ xmit_pc' # xmit_pc)

(* C27: every write of tx_space and every insertion into or removal     *)
(* from the transmit queue is made while holding the state lock.        *)
C27_StateLockGuardsBudgetAndQueue == [][C27_LockedStep]_vars

FilterStored == rxctrl # NoRxctrl

(* C29: after a filter-change request has stored differing settings the *)
(* device's receiver control eventually equals the stored one; so,      *)
(* while the device is open, it equals the stored one whenever nothing  *)
(* of a filter change is under way any more.                            *)
C29_StoredSettingsReachDevice ==
  (FilterStored /\ running /\ stop_pc = "idle" /\ FilterQuiet)
    => hw_rxcr1 = rxctrl.rxcr1

(* The same for a device that has not been stopped since it was opened. *)
AppliedWhileUp ==
  (FilterStored /\ running /\ n_stop = 0 /\ stop_pc = "idle" /\ FilterQuiet)
    => hw_rxcr1 = rxctrl.rxcr1

(* A run of the interrupt handler has returned. *)
IrqRunOver == irq_pc = "idle" /\ irq_log # << >>

(* The action logged as ev was performed once if bit is set in the      *)
(* status the run read, and not at all otherwise.                       *)
DoneIffBit(ev, bit) == CountEv(irq_log, ev) = (IF bit \in status THEN 1 ELSE 0)

(* C30: in a run of the interrupt handler each per-bit action is        *)
(* performed if and only if its own bit is set in the status read at    *)
(* entry, whatever other bits are set: the wake-event rewrite for       *)
(* link-down, the budget re-read and the producer's resume for          *)
(* transmit-done, the receive pipeline for receive-done, the filter     *)
(* write for receive-process-stopped, the overrun count for             *)
(* receive-overrun and the link re-evaluation for link-change.          *)
C30_EachBitItsOwnAction ==
  IrqRunOver =>
    /\ DoneIffBit("wkevt", "LDI")
    /\ DoneIffBit("txmir", "TXI")
    /\ DoneIffBit("wake", "TXI")
    /\ DoneIffBit("rx", "RXI")
    /\ DoneIffBit("filter", "RXPSI")
    /\ DoneIffBit("rx_over", "RXOI")
    /\ DoneIffBit("link", "LCI")

(* Receive-done, receive-process-stopped and transmit-done read in one  *)
(* status: the pipeline, the filter write and the resume all took place. *)
C30_Witness ==
  /\ IrqRunOver
  /\ status = {"TXI", "RXI", "RXPSI"}
  /\ CountEv(irq_log, "wake") = 1
  /\ CountEv(irq_log, "rx") = 1
  /\ CountEv(irq_log, "filter") = 1
  /\ CountEv(irq_log, "link") = 0

(* What the capped case asks of iteration i of the decode loop: it is   *)
(* the last one, its frame was not delivered, nothing was recovered and *)
(* the attempt, once over, ended with the acknowledgment.               *)
CappedStopAt(i) ==
  /\ i = Len(rx_iter)
  /\ Len(delivered) = i - 1
  /\ CountOp(rx_log, "recovery") = 0
  /\ RxAttemptOver => Last(rx_log).op = "ack"

(* C31: with the estimate capped at the maximum FIFO size, a frame      *)
(* whose decoding passes the end of the fetched buffer stops the decode *)
(* loop: no recovery buffer, no recovery read, the frame not delivered, *)
(* and the attempt still ends with the dequeue acknowledgment.          *)
C31_CappedOverrunStops ==
  rx_capped(rxfifosize) =>
    \A i \in 1..Len(rx_iter) :
      rx_iter[i].ends > rxfifosize => CappedStopAt(i)

(* The same for the frames the loop's own test (totallen > rxfifosize)  *)
(* finds short.                                                         *)
CappedShortStops ==
  rx_capped(rxfifosize) =>
    \A i \in 1..Len(rx_iter) : rx_iter[i].short => CappedStopAt(i)

CappedShortSeen ==
  /\ rx_capped(rxfifosize)
  /\ \E i \in 1..Len(rx_iter) : rx_iter[i].short

(* The probed length of a frame: the 12 low bits of the byte count word, *)
(* and the room it is counted for.                                       *)
ProbedLen(w) == htons(w % U16) % 4096

FrameRoom(w) == ALIGN(ProbedLen(w), 4) + 4

(* The sum of the rooms of the first k frames, as an integer. *)
RECURSIVE RoomSum(_, _)
RoomSum(rxd, k) == IF k = 0 THEN 0 ELSE RoomSum(rxd, k - 1) + FrameRoom(rxd[k])

(* The number of frames taken: the first at which the running total     *)
(* reaches MAX_RXFIFO_SIZE, or all of them.                             *)
FramesTaken(rxd) ==
  IF \E k \in 1..Len(rxd) : RoomSum(rxd, k) >= MAX_RXFIFO_SIZE
    THEN CHOOSE k \in 1..Len(rxd) :
           /\ RoomSum(rxd, k) >= MAX_RXFIFO_SIZE
           /\ \A j \in 1..(k - 1) : RoomSum(rxd, j) < MAX_RXFIFO_SIZE
    ELSE Len(rxd)

(* C32: for one or more probed frames the size estimate is the smaller  *)
(* of MAX_RXFIFO_SIZE and 4 plus the sum of align(len,4)+4 over the      *)
(* frames in order up to the one at which the running total reaches      *)
(* MAX_RXFIFO_SIZE; it lies between 8 and MAX_RXFIFO_SIZE, and the       *)
(* total with the final 4 stays below 2^16, so the 16-bit accumulator    *)
(* never wraps.                                                          *)
C32_EstimateIsCappedSum ==
  len_pc = "done" =>
    LET total == RoomSum(len_rxd, FramesTaken(len_rxd)) + 4
    IN /\ len_size = Min(MAX_RXFIFO_SIZE, total)
       /\ len_size >= 8 /\ len_size <= MAX_RXFIFO_SIZE
       /\ total < U16

(* An estimate that stopped early, one frame being left out, and hit    *)
(* the limit.                                                            *)
C32_Witness ==
  /\ len_pc = "done"
  /\ FramesTaken(len_rxd) < Len(len_rxd)
  /\ len_size = MAX_RXFIFO_SIZE
  /\ RoomSum(len_rxd, FramesTaken(len_rxd)) + 4 > MAX_RXFIFO_SIZE

(* An estimate below the limit made from every frame probed. *)
EstimateOfTwoSeen ==
  /\ len_pc = "done"
  /\ Len(len_rxd) = 2
  /\ len_size = 116

(* The step of a receive attempt that reads a frame count of zero. *)
ZeroCountStep == rx_pc = "count" /\ rx_pc' # "count" /\ hw_rxfc = 0

(* C33: when the receive-frame-count register reads zero the receive     *)
(* attempt is a no-op: the read of the count is its only bus exchange,  *)
(* no buffer is allocated, no frame is delivered or taken from the      *)
(* device, no counter changes, and the attempt has returned.            *)
C33_ZeroStepIsNoOp ==
  ZeroCountStep =>
    /\ rx_pc' = "idle"
    /\ rx_log' = <<[op |-> "rxfc", n |-> 0]>>
    /\ UNCHANGED <<rx_bufs, buf32, index32, rxfifosize, totallen>>
    /\ UNCHANGED <<delivered, rx_iter, n_rx>>
    /\ UNCHANGED <<hw_rxq, hw_rxfc, dma, isr>>
    /\ UNCHANGED <<tx_space, txq, fid, lock>>

C33_ZeroCountIsNoOp == [][C33_ZeroStepIsNoOp]_vars

(* A receive attempt that read a count of zero has returned with       *)
(* nothing delivered or allocated, an earlier attempt having taken the  *)
(* frames that had arrived.                                             *)
C33_Witness ==
  /\ rx_pc = "idle"
  /\ rxfct = 0
  /\ rx_log = <<[op |-> "rxfc", n |-> 0]>>
  /\ delivered = << >> /\ rx_bufs = {}
  /\ n_rx > 0 /\ hw_rxq = << >>

(* The places of the handler in the receive pipeline and the filter     *)
(* write.                                                               *)
IrqInsideLocked == irq_pc \in {"rx", "rxpsi", "rxpsi_cr"} \/ rx_pc # "idle"

(* Position i of the run's log lies after the release of the bus lock. *)
AfterUnlock(i) == \E j \in 1..(i - 1) : irq_log[j] = "unlock"

(* C34: the interrupt handler re-evaluates the link if and only if      *)
(* link-change was set in the status it read, and only after it has     *)
(* released the bus lock; the receive pipeline and the filter write run *)
(* only while the handler holds the bus lock, before the release.       *)
C34_LinkAfterUnlockRestUnderLock ==
  /\ IrqRunOver => DoneIffBit("link", "LCI")
  /\ irq_pc = "link" => ("LCI" \in status /\ lock # "irq")
  /\ \A i \in 1..Len(irq_log) :
       /\ irq_log[i] = "link" => ("LCI" \in status /\ AfterUnlock(i))
       /\ irq_log[i] \in {"rx", "filter"} => ~AfterUnlock(i)
  /\ IrqInsideLocked => (lock = "irq" /\ CountEv(irq_log, "unlock") = 0)

(* A run that read link-change, receive-done and receive-process-stopped *)
(* together: the pipeline and the filter write came before the release, *)
(* the link re-evaluation after it.                                     *)
C34_Witness ==
  /\ IrqRunOver
  /\ {"LCI", "RXI", "RXPSI"} \subseteq status
  /\ \E i, j, k, l \in 1..Len(irq_log) :
       /\ i < j /\ j < k /\ k < l
       /\ irq_log[i] = "rx" /\ irq_log[j] = "filter"
       /\ irq_log[k] = "unlock" /\ irq_log[l] = "link"

(* A step of the transmit work unit: its position, its batch or its     *)
(* writes to the device change.                                         *)
TxWorkStep ==
  \/ tx_pc' # tx_pc
  \/ tx_buf' # tx_buf
  \/ tx_len' # tx_len
  \/ wr_log' # wr_log

(* The transmit-done block of the interrupt handler is executed. *)
TxDoneStep == irq_pc = "bits" /\ irq_pc' # "bits" /\ "TXI" \in status

(* What C35 says of one step. *)
C35_Step ==
  /\ TxWorkStep => tx_space' = tx_space
  /\ tx_space' > tx_space => TxDoneStep

(* C35: the transmit work unit never changes tx_space, whatever it      *)
(* dequeues and writes, and only the transmit-done block of the         *)
(* interrupt handler ever raises it.                                    *)
C35_OnlyTxDoneRaisesBudget == [][C35_Step]_vars

(* The first half on its own: no step of the transmit work unit changes *)
(* tx_space.                                                            *)
TxWorkKeepsBudget == [][TxWorkStep => tx_space' = tx_space]_vars

(* The transmit work unit has written a batch and tx_space still holds  *)
(* what the send requests left.                                         *)
TxWorkWroteBatch ==
  /\ wr_log # << >>
  /\ tx_pc = "idle"
  /\ tx_space < KSZ8851_TX_SPACE
  /\ last_report = KSZ8851_TX_SPACE

====
